---- MODULE Spec2Model ----
(***************************************************************************)
(* Plan lifecycle of the Roblox Idea Lab & Robux Planner API (src/main.py):*)
(* creation with catalog enrichment, task-list patching with progress and  *)
(* streak computation, replace, notes patch and delete, over a document    *)
(* store keyed by ObjectId strings.                                        *)
(*                                                                         *)
(* Representation.  Python str values are TLA+ strings; None (and JSON     *)
(* null) is the reserved string None, which no request alphabet contains,  *)
(* except that an Optional[int] is <<>> (None) or <<n>>.  A dict is a      *)
(* function whose DOMAIN is its key set.  date objects are <<y, m, d>>.    *)
(* A request body holds, under each key, a value of the JSON type the      *)
(* field declares, or null.                                                *)
(*                                                                         *)
(* Time.  now is what datetime.utcnow() returns: <<date, second of the     *)
(* day, microsecond>>, the wall clock of UTC.  tz is the time zone of the  *)
(* process, which the repository does not set: date.today() is the day of  *)
(* the local wall clock, and datetime.utcnow().timestamp() reads the UTC   *)
(* wall clock as a local time.  The clock moves by steps of its own.  A    *)
(* handler reads the clock at several lines; every reading is a step, and  *)
(* what the handler has read it holds in its locals, one clock value per   *)
(* reading line in program order: the clock may have moved on, and other   *)
(* requests may have read it, before the next reading and before the       *)
(* handler writes.                                                         *)
(*                                                                         *)
(* Steps.  The handlers are sync functions that the server runs on worker  *)
(* threads, so requests overlap.  A handler is one step per reading of the *)
(* clock, with the code that follows it, and one step per store operation  *)
(* (find_one, update_one, insert, delete_one); a handler without a reading *)
(* of the clock and with one store operation is one step.                  *)
(* Between two steps of a handler other requests take steps and time       *)
(* passes.  inflight keeps, per caller, the position of the handler and    *)
(* what it holds in its locals.  deleted, counted and raced are history    *)
(* variables: no handler reads them.                                       *)
(*                                                                         *)
(* ObjectId.  bson is not among the sources.  ObjectId(str) takes 24       *)
(* characters that bytes.fromhex converts, which skips ASCII whitespace    *)
(* between pairs of hex digits; what the driver does with the ObjectId of  *)
(* fewer than 12 bytes that results is left open between its two           *)
(* outcomes.                                                               *)
(***************************************************************************)
EXTENDS Integers, Sequences, FiniteSets, TLC

VARIABLES
    db,       \* TRUE iff the database module configured a store (db is not None)
    store,    \* db["plan"]: ObjectId string -> stored document
    nextOid,  \* number of the next ObjectId the store hands out
    tz,       \* the time zone of the process, the same throughout a run
    now,      \* the clock: what datetime.utcnow() returns
    last,     \* the last step: the request, and the response if it got one
    deleted,  \* history: the ids a DELETE has answered 200 for
    counted,  \* history: the ids of the plans counted for today: a
              \* patch-tasks call that read today's date wrote it as
              \* lastCompletedDate onto the plan as it had read it, and no
              \* patch-tasks call has written onto a changed plan since
    inflight, \* caller -> the request of that caller a worker thread is in
              \* the middle of, with the position of the thread in the handler
    raced     \* history: the ids a patch-tasks call has read a plan under and
              \* then found gone at its write

vars == <<db, store, nextOid, tz, now, last, deleted, counted, inflight, raced>>

----------------------------------------------------------------------------
(* Bounds *)

\* Plans created in a run of every specification but SpecDelete.
MaxPlans == 1
\* Plans created in a run of SpecDelete.
MaxStored == 2
\* Midnights that pass in a run of Spec.
MaxDays == 2
\* Midnights that pass in a run of SpecStreak.
MaxStreakDays == 1
\* Ticks of half a second that pass within one day.
MaxTick == 2
\* Length of a task list in a request of Spec.
MaxTasks == 1
\* Length of a task list in a create request of SpecTasks.
MaxCreate == 2
\* Length of a task list in a patch-tasks request of SpecTasks.
MaxList == 3
\* Callers whose requests overlap.
MaxCalls == 2

----------------------------------------------------------------------------
(* Python values *)

None == "None"

NoInt == <<>>

\* Python truth value of an Optional[str]: None and "" are falsy.
Truthy(s) == s # None /\ s # ""

\* dict.get(k) with the default None.
Get(d, k) == IF k \in DOMAIN d THEN d[k] ELSE None

\* d with d[k] = v, adding the key if it is missing.
Put(d, k, v) == [x \in DOMAIN d \cup {k} |-> IF x = k THEN v ELSE d[x]]

\* seq[:n]
Take(seq, n) == SubSeq(seq, 1, IF Len(seq) < n THEN Len(seq) ELSE n)

Digits == <<"0", "1", "2", "3", "4", "5", "6", "7", "8", "9">>

IsDigit(c) == \E i \in 1..10 : Digits[i] = c

DigitVal(c) == (CHOOSE i \in 1..10 : Digits[i] = c) - 1

IsHex(c) == IsDigit(c) \/ c \in {"a", "b", "c", "d", "e", "f", "A", "B", "C", "D", "E", "F"}

\* f"{n:02d}"
Pad2(n) == IF n < 10 THEN "0" \o ToString(n) ELSE ToString(n)

\* f"{n:06d}"
Pad6(n) == SubSeq("00000", 1, 6 - Len(ToString(n))) \o ToString(n)

\* f"{n:04d}"
Pad4(n) == IF n < 10 THEN "000" \o ToString(n)
           ELSE IF n < 100 THEN "00" \o ToString(n)
           ELSE IF n < 1000 THEN "0" \o ToString(n)
           ELSE ToString(n)

----------------------------------------------------------------------------
(* str: the characters of a string and their UTF-8 encoding *)

\* The characters that take one byte in UTF-8 (U+0001 to U+007F).
AsciiTable ==
    "\t\n\f\r !\"#$%&'()*+,-./0123456789:;<=>?@"
    \o "ABCDEFGHIJKLMNOPQRSTUVWXYZ[\\]^_abcdefghijklmnopqrstuvwxyz{|}~"

\* The characters that take two bytes in UTF-8 (U+0080 to U+07FF), those a
\* string of this module can hold.
TwoByteTable ==
    " ¡¢£¤¥¦§¨©ª«¬­®¯°±²³´µ¶·¸¹º»¼½¾¿"
    \o "ÀÁÂÃÄÅÆÇÈÉÊËÌÍÎÏÐÑÒÓÔÕÖ×ØÙÚÛÜÝÞßàáâãäåæçèéêëìíîïðñòóôõö÷øùúûüýþÿ"
    \o "ƀƁƂƃƄƅƆƇƈƉƊƋƌƍƎƏƐƑƒƓƔƕƖƗƘƙƚƛƜƝƞƟƠơƢƣƤƥƦƧƨƩƪƫƬƭƮƯưƱƲƳƴƵƶƷƸƹƺƻƼƽƾƿ"
    \o "ǀǁǂǃǄǅǆǇǈǉǊǋǌǍǎǏǐǑǒǓǔǕǖǗǘǙǚǛǜǝǞǟǠǡǢǣǤǥǦǧǨǩǪǫǬǭǮǯǰǱǲǳǴǵǶǷǸǹǺǻǼǽǾǿ"
    \o "ʀʁʂʃʄʅʆʇʈʉʊʋʌʍʎʏʐʑʒʓʔʕʖʗʘʙʚʛʜʝʞʟʠʡʢʣʤʥʦʧʨʩʪʫʬʭʮʯʰʱʲʳʴʵʶʷʸʹʺʻʼʽʾʿ"
    \o "ˀˁ˂˃˄˅ˆˇˈˉˊˋˌˍˎˏːˑ˒˓˔˕˖˗˘˙˚˛˜˝˞˟ˠˡˢˣˤ˥˦˧˨˩˪˫ˬ˭ˮ˯˰˱˲˳˴˵˶˷˸˹˺˻˼˽˾˿"
    \o "΀΁΂΃΄΅Ά·ΈΉΊ΋Ό΍ΎΏΐΑΒΓΔΕΖΗΘΙΚΛΜΝΞΟΠΡ΢ΣΤΥΦΧΨΩΪΫάέήίΰαβγδεζηθικλμνξο"
    \o "πρςστυφχψωϊϋόύώϏϐϑϒϓϔϕϖϗϘϙϚϛϜϝϞϟϠϡϢϣϤϥϦϧϨϩϪϫϬϭϮϯϰϱϲϳϴϵ϶ϷϸϹϺϻϼϽϾϿ"
    \o "Ҁҁ҂҃҄҅҆҇҈҉ҊҋҌҍҎҏҐґҒғҔҕҖҗҘҙҚқҜҝҞҟҠҡҢңҤҥҦҧҨҩҪҫҬҭҮүҰұҲҳҴҵҶҷҸҹҺһҼҽҾҿ"
    \o "ӀӁӂӃӄӅӆӇӈӉӊӋӌӍӎӏӐӑӒӓӔӕӖӗӘәӚӛӜӝӞӟӠӡӢӣӤӥӦӧӨөӪӫӬӭӮӯӰӱӲӳӴӵӶӷӸӹӺӻӼӽӾӿ"
    \o "րցւփքօֆևֈ։֊֋֌֍֎֏֐ְֱֲֳִֵֶַָֹֺֻּֽ֑֖֛֢֣֤֥֦֧֪֚֭֮֒֓֔֕֗֘֙֜֝֞֟֠֡֨֩֫֬֯־ֿ"
    \o "׀ׁׂ׃ׅׄ׆ׇ׈׉׊׋׌׍׎׏אבגדהוזחטיךכלםמןנסעףפץצקרשת׫׬׭׮ׯװױײ׳״׵׶׷׸׹׺׻׼׽׾׿"
    \o "ڀځڂڃڄڅچڇڈډڊڋڌڍڎڏڐڑڒړڔڕږڗژڙښڛڜڝڞڟڠڡڢڣڤڥڦڧڨکڪګڬڭڮگڰڱڲڳڴڵڶڷڸڹںڻڼڽھڿ"
    \o "ۀہۂۃۄۅۆۇۈۉۊۋیۍێۏېۑےۓ۔ەۖۗۘۙۚۛۜ۝۞ۣ۟۠ۡۢۤۥۦۧۨ۩۪ۭ۫۬ۮۯ۰۱۲۳۴۵۶۷۸۹ۺۻۼ۽۾ۿ"
    \o "ހށނރބޅކއވމފދތލގޏސޑޒޓޔޕޖޗޘޙޚޛޜޝޞޟޠޡޢޣޤޥަާިީުޫެޭޮޯްޱ޲޳޴޵޶޷޸޹޺޻޼޽޾޿"
    \o "߀߁߂߃߄߅߆߇߈߉ߊߋߌߍߎߏߐߑߒߓߔߕߖߗߘߙߚߛߜߝߞߟߠߡߢߣߤߥߦߧߨߩߪ߲߫߬߭߮߯߰߱߳ߴߵ߶߷߸߹ߺ߻߼߽߾߿"

\* Characters beyond U+FFFF, which take four bytes in UTF-8: a string holds
\* each of them as two units, of two bytes each.
SurrogateTable ==
    "𰂀𰒁𰢂𰲃𱂄𱒅𱢆𱲇𲂈𲒉𲢊𲲋𳂌𳒍𳢎𳲏𴂐𴒑𴢒𴲓𵂔𵒕𵢖𵲗𶂘𶒙𶢚𶲛𷂜𷒝𷢞𷲟"
    \o "𸂠𸒡𸢢𸲣𹂤𹒥𹢦𹲧𺂨𺒩𺢪𺲫𻂬𻒭𻢮𻲯𼂰𼒱𼢲𼲳𽂴𽒵𽢶𽲷𾂸𾒹𾢺𾲻𿂼𿒽𿢾𿲿"
    \o "񀃀񀓁񀣂񀳃񁃄񁓅񁣆񁳇񂃈񂓉񂣊񂳋񃃌񃓍񃣎񃳏񄃐񄓑񄣒񄳓񅃔񅓕񅣖񅳗񆃘񆓙񆣚񆳛񇃜񇓝񇣞񇳟"
    \o "񈃠񈓡񈣢񈳣񉃤񉓥񉣦񉳧񊃨񊓩񊣪񊳫񋃬񋓭񋣮񋳯񌃰񌓱񌣲񌳳񍃴񍓵񍣶񍳷񎃸񎓹񎣺񎳻񏃼񏓽񏣾񏳿"
    \o "񰆀񰖁񰦂񰶃񱆄񱖅񱦆񱶇񲆈񲖉񲦊񲶋񳆌񳖍񳦎񳶏񴆐񴖑񴦒񴶓񵆔񵖕񵦖񵶗񶆘񶖙񶦚񶶛񷆜񷖝񷦞񷶟"
    \o "񸆠񸖡񸦢񸶣񹆤񹖥񹦦񹶧񺆨񺖩񺦪񺶫񻆬񻖭񻦮񻶯񼆰񼖱񼦲񼶳񽆴񽖵񽦶񽶷񾆸񾖹񾦺񾶻񿆼񿖽񿦾񿶿"
    \o "򀇀򀗁򀧂򀷃򁇄򁗅򁧆򁷇򂇈򂗉򂧊򂷋򃇌򃗍򃧎򃷏򄇐򄗑򄧒򄷓򅇔򅗕򅧖򅷗򆇘򆗙򆧚򆷛򇇜򇗝򇧞򇷟"
    \o "򈇠򈗡򈧢򈷣򉇤򉗥򉧦򉷧򊇨򊗩򊧪򊷫򋇬򋗭򋧮򋷯򌇰򌗱򌧲򌷳򍇴򍗵򍧶򍷷򎇸򎗹򎧺򎷻򏇼򏗽򏧾򏷿"
    \o "򰊀򰚁򰪂򰺃򱊄򱚅򱪆򱺇򲊈򲚉򲪊򲺋򳊌򳚍򳪎򳺏򴊐򴚑򴪒򴺓򵊔򵚕򵪖򵺗򶊘򶚙򶪚򶺛򷊜򷚝򷪞򷺟"
    \o "򸊠򸚡򸪢򸺣򹊤򹚥򹪦򹺧򺊨򺚩򺪪򺺫򻊬򻚭򻪮򻺯򼊰򼚱򼪲򼺳򽊴򽚵򽪶򽺷򾊸򾚹򾪺򾺻򿊼򿚽򿪾򿺿"
    \o "󀋀󀛁󀫂󀻃󁋄󁛅󁫆󁻇󂋈󂛉󂫊󂻋󃋌󃛍󃫎󃻏󄋐󄛑󄫒󄻓󅋔󅛕󅫖󅻗󆋘󆛙󆫚󆻛󇋜󇛝󇫞󇻟"
    \o "󈋠󈛡󈫢󈻣󉋤󉛥󉫦󉻧󊋨󊛩󊫪󊻫󋋬󋛭󋫮󋻯󌋰󌛱󌫲󌻳󍋴󍛵󍫶󍻷󎋸󎛹󎫺󎻻󏋼󏛽󏫾󏻿"
    \o "󰎀󰞁󰮂󰾃󱎄󱞅󱮆󱾇󲎈󲞉󲮊󲾋󳎌󳞍󳮎󳾏󴎐󴞑󴮒󴾓󵎔󵞕󵮖󵾗󶎘󶞙󶮚󶾛󷎜󷞝󷮞󷾟"
    \o "󸎠󸞡󸮢󸾣󹎤󹞥󹮦󹾧󺎨󺞩󺮪󺾫󻎬󻞭󻮮󻾯󼎰󼞱󼮲󼾳󽎴󽞵󽮶󽾷󾎸󾞹󾮺󾾻󿎼󿞽󿮾󿾿"
    \o "􀏀􀟁􀯂􀿃􁏄􁟅􁯆􁿇􂏈􂟉􂯊􂿋􃏌􃟍􃯎􃿏􄏐􄟑􄯒􄿓􅏔􅟕􅯖􅿗􆏘􆟙􆯚􆿛􇏜􇟝􇯞􇿟"
    \o "􈏠􈟡􈯢􈿣􉏤􉟥􉯦􉿧􊏨􊟩􊯪􊿫􋏬􋟭􋯮􋿯􌏰􌟱􌯲􌿳􍏴􍟵􍯶􍿷􎏸􎟹􎯺􎿻􏏼􏟽􏯾􏿿"

\* The units of a string.
Chars(s) == {SubSeq(s, i, i) : i \in 1..Len(s)}

AsciiChars == Chars(AsciiTable)

TwoByteChars == Chars(TwoByteTable) \cup Chars(SurrogateTable)

\* The bytes of the unit c in UTF-8; a unit of neither table is a character
\* of U+0800 to U+FFFF, three bytes.
Utf8Bytes(c) == IF c \in AsciiChars THEN 1 ELSE IF c \in TwoByteChars THEN 2 ELSE 3

\* The length of s in UTF-8, which PyUnicode_AsUTF8AndSize gives the parser
\* of date.fromisoformat.
Utf8Len(s) ==
    LET bytes == [i \in 1..Len(s) |-> Utf8Bytes(SubSeq(s, i, i))]
    IN  Len(s) + Cardinality({i \in 1..Len(s) : bytes[i] = 2})
               + 2 * Cardinality({i \in 1..Len(s) : bytes[i] = 3})

----------------------------------------------------------------------------
(* datetime.date *)

IsLeap(y) == y % 4 = 0 /\ (y % 100 # 0 \/ y % 400 = 0)

DaysInMonth(y, m) ==
    IF m = 2 THEN (IF IsLeap(y) THEN 29 ELSE 28)
    ELSE IF m \in {4, 6, 9, 11} THEN 30 ELSE 31

DaysBeforeYear(y) ==
    (y - 1) * 365 + ((y - 1) \div 4) - ((y - 1) \div 100) + ((y - 1) \div 400)

RECURSIVE DaysBeforeMonth(_, _)
DaysBeforeMonth(y, m) ==
    IF m = 1 THEN 0 ELSE DaysBeforeMonth(y, m - 1) + DaysInMonth(y, m - 1)

\* date.toordinal(): 0001-01-01 is day 1.
ToOrdinal(d) == DaysBeforeYear(d[1]) + DaysBeforeMonth(d[1], d[2]) + d[3]

\* The day after d.
NextDate(d) ==
    IF d[3] < DaysInMonth(d[1], d[2]) THEN <<d[1], d[2], d[3] + 1>>
    ELSE IF d[2] < 12 THEN <<d[1], d[2] + 1, 1>>
    ELSE <<d[1] + 1, 1, 1>>

\* The day before d.
PrevDate(d) ==
    IF d[3] > 1 THEN <<d[1], d[2], d[3] - 1>>
    ELSE IF d[2] > 1 THEN <<d[1], d[2] - 1, DaysInMonth(d[1], d[2] - 1)>>
    ELSE <<d[1] - 1, 12, 31>>

\* date.isoformat(): "YYYY-MM-DD".
IsoFormat(d) == Pad4(d[1]) \o "-" \o Pad2(d[2]) \o "-" \o Pad2(d[3])

AllDigits(s) == \A i \in 1..Len(s) : IsDigit(SubSeq(s, i, i))

RECURSIVE ParseInt(_)
ParseInt(s) ==
    IF Len(s) = 0 THEN 0
    ELSE ParseInt(SubSeq(s, 1, Len(s) - 1)) * 10 + DigitVal(SubSeq(s, Len(s), Len(s)))

\* s[i - 1 : i], "" past the end of s.
CharAt(s, i) == IF i >= 1 /\ i <= Len(s) THEN SubSeq(s, i, i) ELSE ""

\* The characters a..b of s exist and are digits.
DigitsAt(s, a, b) == a <= b /\ b <= Len(s) /\ AllDigits(SubSeq(s, a, b))

\* date(y, m, d): the date, <<>> for a ValueError.
MakeDate(y, m, d) ==
    IF y \in 1..9999 /\ m \in 1..12 /\ d >= 1 /\ d <= DaysInMonth(y, m)
    THEN <<y, m, d>>
    ELSE <<>>

\* The date of ordinal n, which lies in year y - 1, y or y + 1; <<>> when
\* the year is outside 1..9999.
FromOrdinal(n, y) ==
    LET found == {d \in ((y - 1)..(y + 1)) \X (1..12) \X (1..31) :
                    /\ d[1] \in 1..9999
                    /\ d[3] <= DaysInMonth(d[1], d[2])
                    /\ ToOrdinal(d) = n}
    IN  IF found = {} THEN <<>> ELSE CHOOSE d \in found : TRUE

\* The ordinal of the Monday of ISO week 1 of year y.
IsoWeek1Monday(y) ==
    LET firstday == ToOrdinal(<<y, 1, 1>>)
        firstweekday == (firstday + 6) % 7
    IN  IF firstweekday > 3 THEN firstday - firstweekday + 7 ELSE firstday - firstweekday

\* The date of day dn of ISO week w of year y, <<>> for a ValueError: week
\* 53 exists in years that start on a Thursday, and in leap years that start
\* on a Wednesday.
IsoWeekToDate(y, w, dn) ==
    LET first_weekday == ToOrdinal(<<y, 1, 1>>) % 7
        has53 == first_weekday = 4 \/ (first_weekday = 3 /\ IsLeap(y))
    IN  IF w < 1 \/ w > 53 \/ (w = 53 /\ ~has53) \/ dn < 1 \/ dn > 7 THEN <<>>
        ELSE FromOrdinal(IsoWeek1Monday(y) + (w - 1) * 7 + (dn - 1), y)

\* "YYYY-Www", "YYYY-Www-D", "YYYYWww", "YYYYWwwD": p is the position of the
\* first week digit.  The day is read when bytes are left after the week;
\* every character before it is a digit, "-" or "W", of one byte, so that
\* far the position of a character is that of its byte.
IsoWeekDate(s, y, sep, p) ==
    IF ~DigitsAt(s, p, p + 1) THEN <<>>
    ELSE LET w == ParseInt(SubSeq(s, p, p + 1))
             q == p + 2
             r == IF sep THEN q + 1 ELSE q
         IN  IF q > Utf8Len(s) THEN IsoWeekToDate(y, w, 1)
             ELSE IF sep /\ CharAt(s, q) # "-" THEN <<>>
             ELSE IF ~DigitsAt(s, r, r) THEN <<>>
             ELSE IsoWeekToDate(y, w, ParseInt(SubSeq(s, r, r)))

\* "YYYY-MM-DD", "YYYYMMDD": p is the position of the first month digit.
IsoCalendarDate(s, y, sep, p) ==
    IF ~DigitsAt(s, p, p + 1) THEN <<>>
    ELSE LET m == ParseInt(SubSeq(s, p, p + 1))
             q == p + 2
             r == IF sep THEN q + 1 ELSE q
         IN  IF sep /\ CharAt(s, q) # "-" THEN <<>>
             ELSE IF ~DigitsAt(s, r, r + 1) THEN <<>>
             ELSE MakeDate(y, m, ParseInt(SubSeq(s, r, r + 1)))

\* date.fromisoformat(s) of CPython 3.11 and later: the date, <<>> for a
\* ValueError.  The string has 7, 8 or 10 bytes in UTF-8; what follows the
\* last field that is read is not looked at.
IsoParse(s) ==
    IF Utf8Len(s) \notin {7, 8, 10} \/ ~DigitsAt(s, 1, 4) THEN <<>>
    ELSE LET y == ParseInt(SubSeq(s, 1, 4))
             sep == CharAt(s, 5) = "-"
             p == IF sep THEN 6 ELSE 5
         IN  IF CharAt(s, p) = "W"
             THEN IsoWeekDate(s, y, sep, p + 1)
             ELSE IsoCalendarDate(s, y, sep, p)

\* date.fromisoformat(s) returns a date (TRUE) or raises ValueError (FALSE).
IsIsoDate(s) == IsoParse(s) # <<>>

\* The date date.fromisoformat(s) returns.
FromIsoFormat(s) == IsoParse(s)

\* (a - b).days
DaysBetween(a, b) == ToOrdinal(a) - ToOrdinal(b)

----------------------------------------------------------------------------
(* datetime.datetime and the time zone *)

\* A clock reading r is the datetime that datetime.utcnow() returns: the date
\* r[1], the second of the day r[2] and the microsecond r[3].

\* "HH:MM:SS" of the second s of the day.
TimeOfDay(s) == Pad2(s \div 3600) \o ":" \o Pad2((s % 3600) \div 60) \o ":" \o Pad2(s % 60)

\* datetime.utcnow().isoformat() at the reading r; isoformat() leaves the
\* microseconds out when they are 0.
UtcNowIso(r) ==
    IsoFormat(r[1]) \o "T" \o TimeOfDay(r[2])
        \o (IF r[3] = 0 THEN "" ELSE "." \o Pad6(r[3]))

\* A time zone: the offset from UTC in seconds that holds at first (base),
\* and its changes <<instant, offset>>, in order: from the instant on, in
\* seconds since 1970-01-01T00:00:00 UTC, the offset holds.
Utc == [base |-> 0, changes |-> <<>>]

Tokyo == [base |-> 32400, changes |-> <<>>]

\* America/New_York with its changes from 1970 to 2037, two a year.
NewYork ==
    [base |-> -18000,
     changes |-> <<
        <<9961200, -14400>>, <<25682400, -18000>>, <<41410800, -14400>>,
        <<57736800, -18000>>, <<73465200, -14400>>, <<89186400, -18000>>,
        <<104914800, -14400>>, <<120636000, -18000>>, <<126687600, -14400>>,
        <<152085600, -18000>>, <<162370800, -14400>>, <<183535200, -18000>>,
        <<199263600, -14400>>, <<215589600, -18000>>, <<230713200, -14400>>,
        <<247039200, -18000>>, <<262767600, -14400>>, <<278488800, -18000>>,
        <<294217200, -14400>>, <<309938400, -18000>>, <<325666800, -14400>>,
        <<341388000, -18000>>, <<357116400, -14400>>, <<372837600, -18000>>,
        <<388566000, -14400>>, <<404892000, -18000>>, <<420015600, -14400>>,
        <<436341600, -18000>>, <<452070000, -14400>>, <<467791200, -18000>>,
        <<483519600, -14400>>, <<499240800, -18000>>, <<514969200, -14400>>,
        <<530690400, -18000>>, <<544604400, -14400>>, <<562140000, -18000>>,
        <<576054000, -14400>>, <<594194400, -18000>>, <<607503600, -14400>>,
        <<625644000, -18000>>, <<638953200, -14400>>, <<657093600, -18000>>,
        <<671007600, -14400>>, <<688543200, -18000>>, <<702457200, -14400>>,
        <<719992800, -18000>>, <<733906800, -14400>>, <<752047200, -18000>>,
        <<765356400, -14400>>, <<783496800, -18000>>, <<796806000, -14400>>,
        <<814946400, -18000>>, <<828860400, -14400>>, <<846396000, -18000>>,
        <<860310000, -14400>>, <<877845600, -18000>>, <<891759600, -14400>>,
        <<909295200, -18000>>, <<923209200, -14400>>, <<941349600, -18000>>,
        <<954658800, -14400>>, <<972799200, -18000>>, <<986108400, -14400>>,
        <<1004248800, -18000>>, <<1018162800, -14400>>, <<1035698400, -18000>>,
        <<1049612400, -14400>>, <<1067148000, -18000>>, <<1081062000, -14400>>,
        <<1099202400, -18000>>, <<1112511600, -14400>>, <<1130652000, -18000>>,
        <<1143961200, -14400>>, <<1162101600, -18000>>, <<1173596400, -14400>>,
        <<1194156000, -18000>>, <<1205046000, -14400>>, <<1225605600, -18000>>,
        <<1236495600, -14400>>, <<1257055200, -18000>>, <<1268550000, -14400>>,
        <<1289109600, -18000>>, <<1299999600, -14400>>, <<1320559200, -18000>>,
        <<1331449200, -14400>>, <<1352008800, -18000>>, <<1362898800, -14400>>,
        <<1383458400, -18000>>, <<1394348400, -14400>>, <<1414908000, -18000>>,
        <<1425798000, -14400>>, <<1446357600, -18000>>, <<1457852400, -14400>>,
        <<1478412000, -18000>>, <<1489302000, -14400>>, <<1509861600, -18000>>,
        <<1520751600, -14400>>, <<1541311200, -18000>>, <<1552201200, -14400>>,
        <<1572760800, -18000>>, <<1583650800, -14400>>, <<1604210400, -18000>>,
        <<1615705200, -14400>>, <<1636264800, -18000>>, <<1647154800, -14400>>,
        <<1667714400, -18000>>, <<1678604400, -14400>>, <<1699164000, -18000>>,
        <<1710054000, -14400>>, <<1730613600, -18000>>, <<1741503600, -14400>>,
        <<1762063200, -18000>>, <<1772953200, -14400>>, <<1793512800, -18000>>,
        <<1805007600, -14400>>, <<1825567200, -18000>>, <<1836457200, -14400>>,
        <<1857016800, -18000>>, <<1867906800, -14400>>, <<1888466400, -18000>>,
        <<1899356400, -14400>>, <<1919916000, -18000>>, <<1930806000, -14400>>,
        <<1951365600, -18000>>, <<1962860400, -14400>>, <<1983420000, -18000>>,
        <<1994310000, -14400>>, <<2014869600, -18000>>, <<2025759600, -14400>>,
        <<2046319200, -18000>>, <<2057209200, -14400>>, <<2077768800, -18000>>,
        <<2088658800, -14400>>, <<2109218400, -18000>>, <<2120108400, -14400>>,
        <<2140668000, -18000>> >>]

\* The number of the changes that have happened at the instant u, when the
\* first lo of them have and those after the first hi have not.
RECURSIVE ChangesBy(_, _, _, _)
ChangesBy(changes, u, lo, hi) ==
    IF lo = hi THEN lo
    ELSE LET mid == (lo + hi + 1) \div 2
         IN  IF changes[mid][1] <= u
             THEN ChangesBy(changes, u, mid, hi)
             ELSE ChangesBy(changes, u, lo, mid - 1)

\* The offset from UTC of the zone at the instant u.
UtcOffset(zone, u) ==
    LET past == ChangesBy(zone.changes, u, 0, Len(zone.changes))
    IN  IF past = 0 THEN zone.base ELSE zone.changes[past][2]

\* time.localtime(u), as the seconds from 1970-01-01T00:00:00 to the local
\* wall clock.
Local(zone, u) == u + UtcOffset(zone, u)

\* The seconds from 1970-01-01T00:00:00 to the wall clock r.
WallSeconds(r) == (ToOrdinal(r[1]) - ToOrdinal(<<1970, 1, 1>>)) * 86400 + r[2]

\* datetime.timestamp() of the naive datetime r, whole seconds: the instant
\* u at which the local wall clock of the zone shows r (local(u) = t).  Of
\* two such instants it is the earlier (fold = 0); when the local clock
\* skips r, it is r taken with the offset before the skip.
MkTime(r, zone) ==
    LET t == WallSeconds(r)
        a == Local(zone, t) - t
        u1 == t - a
        t1 == Local(zone, u1)
        b == IF t1 = t THEN Local(zone, u1 - 86400) - (u1 - 86400) ELSE t1 - u1
        u2 == t - b
        t2 == Local(zone, u2)
    IN  IF t1 = t /\ a = b THEN u1
        ELSE IF t2 = t THEN u2
        ELSE IF t1 = t THEN u1
        ELSE IF u1 > u2 THEN u1 ELSE u2

\* date.today() when datetime.utcnow() returns r: the day of the local wall
\* clock, for a zone within a day of UTC.
LocalDate(r, zone) ==
    LET days == (r[2] + UtcOffset(zone, WallSeconds(r))) \div 86400
    IN  IF days < 0 THEN PrevDate(r[1])
        ELSE IF days > 0 THEN NextDate(r[1])
        ELSE r[1]

\* int(datetime.utcnow().timestamp()) at the reading r: utcnow() is naive,
\* and timestamp() takes it for a time of the zone of the process.
UtcTimestamp(r) == MkTime(r, tz)

\* date.today() at the reading r.
DateToday(r) == LocalDate(r, tz)

\* The clock is at a or later when it is at b.
NotBefore(a, b) ==
    \/ ToOrdinal(a[1]) < ToOrdinal(b[1])
    \/ a[1] = b[1] /\ a[2] < b[2]
    \/ a[1] = b[1] /\ a[2] = b[2] /\ a[3] <= b[3]

----------------------------------------------------------------------------
(* float: done / len(tasks) * 100 in IEEE 754 doubles *)

RECURSIVE Pow2(_)
Pow2(k) == IF k = 0 THEN 1 ELSE 2 * Pow2(k - 1)

\* floor(log2(k)) for k >= 1.
RECURSIVE Log2(_)
Log2(k) == IF k < 2 THEN 0 ELSE 1 + Log2(k \div 2)

\* 2^k mod m, by squaring.
RECURSIVE Pow2Mod(_, _)
Pow2Mod(k, m) ==
    IF k = 0 THEN 1 % m
    ELSE LET h == Pow2Mod(k \div 2, m)
         IN  IF k % 2 = 1 THEN (2 * ((h * h) % m)) % m ELSE (h * h) % m

\* (x * 2^k) mod m
ShiftMod(x, k, m) == ((x % m) * Pow2Mod(k, m)) % m

\* The least s with d * 2^s >= n, for 0 < d <= n: d / n is in [2^-s, 2^(1-s)).
RECURSIVE QuotientShift(_, _)
QuotientShift(d, n) == IF d >= n THEN 0 ELSE 1 + QuotientShift(2 * d, n)

\* The float d / n is M / 2^(52+s), M the integer nearest d * 2^(52+s) / n
\* (53 bits, a tie to the even one).  The rounding error M * n - d * 2^(52+s).
DivisionError(d, n) ==
    LET r == ShiftMod(d, 52 + QuotientShift(d, n), 2 * n)
        rem == r % n
        odd == r >= n
    IN  IF 2 * rem < n \/ (2 * rem = n /\ ~odd) THEN 0 - rem ELSE n - rem

\* int(d / n * 100) for 0 <= d <= n, n > 0.  When 100 * d / n is not whole,
\* the two roundings move the product by less than its distance to a whole
\* number, and int() gives the whole part.  When it is a whole number k, the
\* product is k + 100 * e / (n * 2^(52+s)) before it is rounded, e the
\* error of the division: it rounds to a double below k, and int() gives
\* k - 1, when e is negative and the product is more than half a spacing of
\* the doubles under k away from k.
FloatPercent(d, n) ==
    IF d = 0 \/ (100 * d) % n # 0 THEN (100 * d) \div n
    ELSE LET k == (100 * d) \div n
             e == DivisionError(d, n)
             t == Log2(k)
             h == QuotientShift(d, n) + t - (IF k = Pow2(t) THEN 2 ELSE 1)
         IN  IF e < 0 /\ h <= 5 /\ 100 * (0 - e) > n * Pow2(h) THEN k - 1 ELSE k

----------------------------------------------------------------------------
(* Static catalogs: the twenty seeded ideas and the five seeded paths, with *)
(* the fields create_plan reads.                                           *)

IDEAS == <<
    [id |-> "idea-obby-lava",
     concept |-> "Dash across floating islands above lava rivers. Time your jumps on moving platforms and collect coins to unlock shortcuts.",
     coreMechanics |-> <<"Jump timing", "Moving platforms", "Checkpoints", "Collectibles", "Speed pads">>,
     funHooks |-> <<"Daily challenges", "Hidden rooms", "Co-op races", "Seasonal events">>,
     monetizationIdeas |-> <<"Gamepasses: double coins, speed boost", "Dev products: shield, checkpoint skip", "Cosmetics: trails, pets">>],
    [id |-> "idea-tycoon-pets",
     concept |-> "Build a pet rescue center, treat animals, and expand rooms to serve more visitors.",
     coreMechanics |-> <<"Gather resources", "Upgrade rooms", "Mini-games for pet care", "NPC adoption system">>,
     funHooks |-> <<"Events", "Rare pet drops", "Friend boosts">>,
     monetizationIdeas |-> <<"Gamepasses: double income", "Dev products: boost packs", "Cosmetics: skins">>],
    [id |-> "idea-sim-mining",
     concept |-> "Mine colorful crystals, refine them, and sell to upgrade your drill.",
     coreMechanics |-> <<"Resource nodes", "Backpack capacity", "Refinery", "Upgrades">>,
     funHooks |-> <<"Meteor showers", "Boss rock", "Obby shortcut caves">>,
     monetizationIdeas |-> <<"Gamepasses: extra capacity", "Dev products: boost potions", "Cosmetics: pickaxe skins">>],
    [id |-> "idea-role-cafe",
     concept |-> "Run a cute cafe with friends, serve pastries, and decorate the shop.",
     coreMechanics |-> <<"Cooking mini-game", "Customer queue", "Decor placement", "Emotes">>,
     funHooks |-> <<"Seasonal menus", "Competitions", "Photo mode">>,
     monetizationIdeas |-> <<"Cosmetics", "Gamepasses: VIP lounge", "Premium payouts">>],
    [id |-> "idea-horror-mansion",
     concept |-> "Explore a spooky mansion, solve puzzles, and escape before midnight.",
     coreMechanics |-> <<"Inventory puzzles", "Chase sequences", "Light management">>,
     funHooks |-> <<"Hidden endings", "Secret rooms">>,
     monetizationIdeas |-> <<"Cosmetics only", "Premium payouts">>],
    [id |-> "idea-story-space",
     concept |-> "Find a way home after your ship crashes on a neon planet.",
     coreMechanics |-> <<"Dialogue choices", "Crafting", "Exploration">>,
     funHooks |-> <<"Time trials", "Photo collectibles">>,
     monetizationIdeas |-> <<"Cosmetics: suits", "Dev products: temporary boosts">>],
    [id |-> "idea-pvp-arena",
     concept |-> "Fast rounds in a compact neon arena with jump pads and powerups.",
     coreMechanics |-> <<"Round-based", "Powerups", "Team vs team">>,
     funHooks |-> <<"Ranked ladder", "Season pass", "Clans">>,
     monetizationIdeas |-> <<"Cosmetics", "Gamepasses: private servers", "Dev products: boosters">>],
    [id |-> "idea-obby-ice",
     concept |-> "Slippery tunnels with sliding surfaces and falling icicles.",
     coreMechanics |-> <<"Slide physics", "Timed doors", "Checkpoints">>,
     funHooks |-> <<"Speedrun boards", "Hidden penguin pet">>,
     monetizationIdeas |-> <<"Cosmetics: trails", "Gamepasses: double coins">>],
    [id |-> "idea-tycoon-mall",
     concept |-> "Build a tiny mall with themed shops and hire NPCs.",
     coreMechanics |-> <<"Income tick", "Hire & upgrade NPCs", "Decor placement">>,
     funHooks |-> <<"Events", "Limited-time shops">>,
     monetizationIdeas |-> <<"Dev products: cash packs", "Gamepasses: double income", "Cosmetics: outfits">>],
    [id |-> "idea-sim-racing",
     concept |-> "Arcade racing on cloud tracks with boosters and banners.",
     coreMechanics |-> <<"Time trials", "Kart upgrades", "Boost pads">>,
     funHooks |-> <<"Ghost races", "Seasonal tracks">>,
     monetizationIdeas |-> <<"Cosmetics: karts", "Season pass", "Dev products: boosters">>],
    [id |-> "idea-role-hospital",
     concept |-> "Treat patients in a friendly hospital and unlock new rooms.",
     coreMechanics |-> <<"Mini-games", "NPC schedules", "Decor">>,
     funHooks |-> <<"Events", "Photo quests">>,
     monetizationIdeas |-> <<"Cosmetics", "Premium payouts">>],
    [id |-> "idea-horror-forest",
     concept |-> "Survive nights in a foggy forest with a roaming creature.",
     coreMechanics |-> <<"Stealth", "Sound cues", "Crafting traps">>,
     funHooks |-> <<"Leaderboards", "Hidden lore">>,
     monetizationIdeas |-> <<"Cosmetics only">>],
    [id |-> "idea-story-school",
     concept |-> "Solve a school mystery using clues and mini-puzzles.",
     coreMechanics |-> <<"Dialogue", "Puzzle rooms", "Collectibles">>,
     funHooks |-> <<"Photo mode", "Multiple endings">>,
     monetizationIdeas |-> <<"Cosmetics">>],
    [id |-> "idea-pvp-battle-royale",
     concept |-> "Quick 12-player rounds on micro islands.",
     coreMechanics |-> <<"Drops", "Storm circle", "Attachments">>,
     funHooks |-> <<"Ranked", "Clans">>,
     monetizationIdeas |-> <<"Cosmetics", "Battle pass">>],
    [id |-> "idea-obby-toy",
     concept |-> "Colorful conveyor belts and bouncy toys as obstacles.",
     coreMechanics |-> <<"Conveyors", "Jump pads", "Timing">>,
     funHooks |-> <<"Daily quests", "Secret plushies">>,
     monetizationIdeas |-> <<"Cosmetics", "Dev products: boosters">>],
    [id |-> "idea-tycoon-farm",
     concept |-> "Grow crops, upgrade tractors, sell at market.",
     coreMechanics |-> <<"Plant/harvest", "Upgrades", "Delivery quests">>,
     funHooks |-> <<"Seasonal crops", "Friend boosts">>,
     monetizationIdeas |-> <<"Gamepasses: double yield", "Cosmetics: skins">>],
    [id |-> "idea-sim-bakery",
     concept |-> "Mix ingredients, bake pastries, and decorate your shop.",
     coreMechanics |-> <<"Recipe mini-games", "Upgrades", "Delivery">>,
     funHooks |-> <<"Events", "Photo mode">>,
     monetizationIdeas |-> <<"Cosmetics", "Boost packs">>],
    [id |-> "idea-role-city",
     concept |-> "Jobs, apartments, vehicles in a tiny city.",
     coreMechanics |-> <<"Job mini-games", "Housing", "Vehicles">>,
     funHooks |-> <<"Events", "Photo mode">>,
     monetizationIdeas |-> <<"Cosmetics", "Premium payouts">>],
    [id |-> "idea-horror-lab",
     concept |-> "Escape a glitchy lab with puzzles and stealth.",
     coreMechanics |-> <<"Stealth", "Puzzles", "Chase">>,
     funHooks |-> <<"Speedrun", "Hidden endings">>,
     monetizationIdeas |-> <<"Cosmetics only">>],
    [id |-> "idea-story-fantasy",
     concept |-> "Restore a shattered kingdom by finding crystal shards.",
     coreMechanics |-> <<"Exploration", "Boss fights", "Crafting">>,
     funHooks |-> <<"Photo mode", "Quests">>,
     monetizationIdeas |-> <<"Cosmetics">>] >>

PATHS == <<
    [id |-> "path-create-games",
     description |-> "Earn Robux by building and publishing fair, fun experiences.",
     checklist |-> <<
        [taskId |-> "path-create-games-t0", label |-> "Install Roblox Studio", isOptional |-> FALSE],
        [taskId |-> "path-create-games-t1", label |-> "Ship your first tiny game", isOptional |-> FALSE],
        [taskId |-> "path-create-games-t2", label |-> "Add 1 cosmetic and 1 boost", isOptional |-> FALSE],
        [taskId |-> "path-create-games-t3", label |-> "Test with 3 friends", isOptional |-> FALSE],
        [taskId |-> "path-create-games-t4", label |-> "Read TOS monetization rules", isOptional |-> TRUE] >>],
    [id |-> "path-ugc-items",
     description |-> "Design hats and accessories that follow UGC rules.",
     checklist |-> <<
        [taskId |-> "path-ugc-items-t0", label |-> "Pick a modeling workflow", isOptional |-> FALSE],
        [taskId |-> "path-ugc-items-t1", label |-> "Create 1 hat prototype", isOptional |-> FALSE],
        [taskId |-> "path-ugc-items-t2", label |-> "Render & preview in Studio", isOptional |-> FALSE],
        [taskId |-> "path-ugc-items-t3", label |-> "Read UGC guidelines", isOptional |-> TRUE] >>],
    [id |-> "path-gamepasses",
     description |-> "Fair ways to monetize experiences without pay-to-win.",
     checklist |-> <<
        [taskId |-> "path-gamepasses-t0", label |-> "List 5 cosmetic ideas", isOptional |-> FALSE],
        [taskId |-> "path-gamepasses-t1", label |-> "Design 3 useful boosts", isOptional |-> FALSE],
        [taskId |-> "path-gamepasses-t2", label |-> "Set initial prices", isOptional |-> FALSE],
        [taskId |-> "path-gamepasses-t3", label |-> "Test with friends", isOptional |-> FALSE] >>],
    [id |-> "path-commissions",
     description |-> "Earn by helping teams with building, UI, or scripting.",
     checklist |-> <<
        [taskId |-> "path-commissions-t0", label |-> "Make a portfolio page", isOptional |-> FALSE],
        [taskId |-> "path-commissions-t1", label |-> "Finish 1 paid mini gig", isOptional |-> FALSE],
        [taskId |-> "path-commissions-t2", label |-> "Ask for testimonial", isOptional |-> FALSE] >>],
    [id |-> "path-premium-payouts",
     description |-> "Design for healthy engagement to qualify for payouts.",
     checklist |-> <<
        [taskId |-> "path-premium-payouts-t0", label |-> "Read official rules", isOptional |-> FALSE],
        [taskId |-> "path-premium-payouts-t1", label |-> "Add daily/weekly quests", isOptional |-> FALSE],
        [taskId |-> "path-premium-payouts-t2", label |-> "Run retention test", isOptional |-> FALSE] >>] >>

\* FindById returning the first entry when there is no match.
FindById_FirstOnMiss(catalog, id) ==
    IF \E i \in 1..Len(catalog) : catalog[i].id = id
    THEN CHOOSE i \in 1..Len(catalog) : catalog[i].id = id
    ELSE 1

\* next((x for x in catalog if x["id"] == id), None): the index of the first
\* match, 0 when there is none.
FindById(catalog, id) ==
    IF \E i \in 1..Len(catalog) : catalog[i].id = id
    THEN CHOOSE i \in 1..Len(catalog) :
            /\ catalog[i].id = id
            /\ \A j \in 1..(i - 1) : catalog[j].id # id
    ELSE 0

----------------------------------------------------------------------------
(* Helpers of the plan handlers *)

\* The n-th ObjectId the store hands out, as its 24-character hex string.
ObjectIdStr(n) == "00000000000000000000000" \o ToString(n)

\* Py_ISSPACE: the ASCII whitespace bytes.fromhex skips.
IsSpace(c) == c \in {" ", "\t", "\n", "", "\f", "\r"}

\* bytes.fromhex(s) from position i on converts: pairs of hex digits, with
\* any run of ASCII whitespace before a pair and after the last one;
\* anything else raises ValueError.
RECURSIVE FromHex(_, _)
FromHex(s, i) ==
    IF i > Len(s) THEN TRUE
    ELSE IF IsSpace(SubSeq(s, i, i)) THEN FromHex(s, i + 1)
    ELSE /\ i + 1 <= Len(s)
         /\ IsHex(SubSeq(s, i, i))
         /\ IsHex(SubSeq(s, i + 1, i + 1))
         /\ FromHex(s, i + 2)

\* to_object_id: ObjectId(id_str) takes a str of 24 characters that
\* bytes.fromhex converts, anything else is a 400.
to_object_id(id_str) == Len(id_str) = 24 /\ FromHex(id_str, 1)

\* The ObjectId of an id that to_object_id lets through has the 12 bytes of
\* a key of the store: the 24 characters are 12 pairs, with no blank among
\* them.
TwelveBytes(id_str) == \A i \in 1..Len(id_str) : ~IsSpace(SubSeq(id_str, i, i))

\* doc_to_dict of a document that was found: the document with its key as "id".
doc_to_dict(id, doc) == Put(doc, "id", id)

\* sum(1 for t in tasks if t.get("isDone"))
RECURSIVE CountDone(_)
CountDone(tasks) ==
    IF tasks = <<>> THEN 0
    ELSE (IF Head(tasks).isDone THEN 1 ELSE 0) + CountDone(Tail(tasks))

\* calc_progress: int(done / len(tasks) * 100), in floating point.
calc_progress(tasks) ==
    IF tasks = <<>> THEN 0
    ELSE FloatPercent(CountDone(tasks), Len(tasks))

\* IdeaTasks without the cap of 2 on the monetization ideas.
IdeaTasks_NoCap(idea) ==
    [i \in 1..Len(Take(idea.coreMechanics, 3) \o Take(idea.funHooks, 2)) |->
        [label |-> "Design: " \o (Take(idea.coreMechanics, 3) \o Take(idea.funHooks, 2))[i],
         isDone |-> FALSE]]
    \o
    [i \in 1..Len(idea.monetizationIdeas) |->
        [label |-> "Plan monetization: " \o idea.monetizationIdeas[i], isDone |-> FALSE]]

\* The tasks create_plan appends for a resolved idea.
IdeaTasks(idea) ==
    [i \in 1..Len(Take(idea.coreMechanics, 3) \o Take(idea.funHooks, 2)) |->
        [label |-> "Design: " \o (Take(idea.coreMechanics, 3) \o Take(idea.funHooks, 2))[i],
         isDone |-> FALSE]]
    \o
    [i \in 1..Len(Take(idea.monetizationIdeas, 2)) |->
        [label |-> "Plan monetization: " \o idea.monetizationIdeas[i], isDone |-> FALSE]]

\* The tasks create_plan appends for a resolved path.
PathTasks(path) ==
    [i \in 1..Len(Take(path.checklist, 6)) |->
        [label |-> path.checklist[i].label, isDone |-> FALSE]]

\* create_plan's id assignment: task number idx (from 0) without a truthy
\* taskId gets "t{idx}-{timestamp}", the timestamp from the reading the loop
\* makes for that task, reads[idx + 1].
CreateNormalize(tasks, reads) ==
    [i \in 1..Len(tasks) |->
        IF Truthy(Get(tasks[i], "taskId")) THEN tasks[i]
        ELSE Put(tasks[i], "taskId",
                 "t" \o ToString(i - 1) \o "-" \o ToString(UtcTimestamp(reads[i])))]

\* patch_tasks' loop body: a missing id becomes "t-{timestamp}" with the
\* reading r1, a done task without completedAt is stamped with the reading r2.
PatchNormalizeTask(t, r1, r2) ==
    LET t1 == IF Truthy(t.taskId) THEN t
              ELSE [t EXCEPT !.taskId = "t-" \o ToString(UtcTimestamp(r1))]
    IN  IF t1.isDone /\ ~Truthy(t1.completedAt)
        THEN [t1 EXCEPT !.completedAt = UtcNowIso(r2)]
        ELSE t1

\* patch_tasks' loop: task i is normalised with the readings reads[2i - 1]
\* and reads[2i].
PatchNormalize(tasks, reads) ==
    [i \in 1..Len(tasks) |-> PatchNormalizeTask(tasks[i], reads[2 * i - 1], reads[2 * i])]

\* completed_today after the loop.
CompletedToday(tasks) ==
    \E i \in 1..Len(tasks) : tasks[i].isDone /\ ~Truthy(tasks[i].completedAt)

\* UpdateStreak without the test for a day already counted.
UpdateStreak_Recount(plan, completed_today, today1, today2) ==
    LET streak == plan.streakCount
        last_day == plan.lastCompletedDate
        td == IsoFormat(today1)
    IN  IF ~completed_today THEN <<streak, last_day>>
        ELSE IF last_day = None THEN <<1, td>>
        ELSE IF IsIsoDate(last_day) /\ DaysBetween(today2, FromIsoFormat(last_day)) = 1
             THEN <<streak + 1, td>>
        ELSE <<1, td>>

\* The streak update of patch_tasks: <<streak, last_day>> to store.  today1
\* is date.today() as read before the loop, today2 as read again for the
\* distance to the last completion.
UpdateStreak(plan, completed_today, today1, today2) ==
    LET streak == plan.streakCount
        last_day == plan.lastCompletedDate
        td == IsoFormat(today1)
    IN  IF ~completed_today THEN <<streak, last_day>>
        ELSE IF last_day = td THEN <<streak, td>>
        ELSE IF last_day = None THEN <<1, td>>
        ELSE IF IsIsoDate(last_day) /\ DaysBetween(today2, FromIsoFormat(last_day)) = 1
             THEN <<streak + 1, td>>
        ELSE <<1, td>>

\* The notes create_plan stores, with the path's description taken before
\* the idea's concept.
CreateNotes_PathFirst(payload) ==
    LET i == IF Truthy(payload.linkedIdeaId) THEN FindById(IDEAS, payload.linkedIdeaId) ELSE 0
        p == IF Truthy(payload.linkedPathId) THEN FindById(PATHS, payload.linkedPathId) ELSE 0
        n1 == IF p # 0 /\ ~Truthy(payload.notes) THEN PATHS[p].description ELSE payload.notes
        n2 == IF i # 0 /\ ~Truthy(n1) THEN IDEAS[i].concept ELSE n1
    IN  IF Truthy(n2) THEN n2 ELSE ""

\* The notes create_plan stores.
CreateNotes(payload) ==
    LET i == IF Truthy(payload.linkedIdeaId) THEN FindById(IDEAS, payload.linkedIdeaId) ELSE 0
        p == IF Truthy(payload.linkedPathId) THEN FindById(PATHS, payload.linkedPathId) ELSE 0
        n1 == IF i # 0 /\ ~Truthy(payload.notes) THEN IDEAS[i].concept ELSE payload.notes
        n2 == IF p # 0 /\ ~Truthy(n1) THEN PATHS[p].description ELSE n1
    IN  IF Truthy(n2) THEN n2 ELSE ""

\* The task list create_plan builds before it assigns ids.
CreateTasks(payload) ==
    LET i == IF Truthy(payload.linkedIdeaId) THEN FindById(IDEAS, payload.linkedIdeaId) ELSE 0
        p == IF Truthy(payload.linkedPathId) THEN FindById(PATHS, payload.linkedPathId) ELSE 0
    IN  payload.tasks
        \o (IF i # 0 THEN IdeaTasks(IDEAS[i]) ELSE <<>>)
        \o (IF p # 0 THEN PathTasks(PATHS[p]) ELSE <<>>)

\* The readings create_plan can make: one for createdAt and updatedAt (line
\* 557), then one in each round of the loop over the tasks (line 560).
CreateReadings(payload) == 1 + Len(CreateTasks(payload))

\* Whether create_plan makes reading p: the first always, the one of a round
\* of the loop for a task without a truthy taskId.
CreateReads(payload, p) ==
    p = 1 \/ ~Truthy(Get(CreateTasks(payload)[p - 1], "taskId"))

\* The next reading create_plan makes after k of its CreateReadings, 0 when
\* it makes no more.
CreateNextReading(payload, k) ==
    LET rest == {p \in (k + 1)..CreateReadings(payload) : CreateReads(payload, p)}
    IN  IF rest = {} THEN 0 ELSE CHOOSE p \in rest : \A q \in rest : p <= q

\* The readings of a handler with reading p made now, at r: the readings
\* before it as they were made, and r in the places up to p that the handler
\* passed without a reading.
ReadAt(reads, p, r) == [i \in 1..p |-> IF i <= Len(reads) THEN reads[i] ELSE r]

\* The document create_plan inserts: clock[1] is the reading for createdAt
\* and updatedAt, clock[1 + i] the reading of the loop for task i.
CreateData(payload, clock) ==
    LET tasks == CreateNormalize(CreateTasks(payload), Tail(clock))
    IN  [name |-> payload.name,
         type |-> payload.type,
         linkedIdeaId |-> payload.linkedIdeaId,
         linkedPathId |-> payload.linkedPathId,
         robuxGoal |-> payload.robuxGoal,
         notes |-> CreateNotes(payload),
         tasks |-> tasks,
         progressPercent |-> calc_progress(tasks),
         streakCount |-> 0,
         lastCompletedDate |-> None,
         createdAt |-> UtcNowIso(clock[1]),
         updatedAt |-> UtcNowIso(clock[1])]

\* The $set document of put_plan with the task list of the payload left in.
PutUpdate_WithTasks(payload, r) ==
    [k \in DOMAIN payload \cup {"updatedAt"} |->
        IF k = "updatedAt" THEN UtcNowIso(r) ELSE payload[k]]

\* The $set document of put_plan: the dumped payload without "tasks", plus
\* updatedAt from the reading r.
PutUpdate(payload, r) ==
    [k \in (DOMAIN payload \ {"tasks"}) \cup {"updatedAt"} |->
        IF k = "updatedAt" THEN UtcNowIso(r) ELSE payload[k]]

\* The readings patch_tasks can make for a list of n tasks: date.today()
\* (line 614), two in each round of the loop (lines 621 and 623),
\* date.today() again (line 638), and one for updatedAt (line 647).
PatchReadings(tasks) == 2 * Len(tasks) + 3

\* Whether patch_tasks makes reading p, after the readings reads: the first
\* and the last always; in the round of a task the first for a task without
\* a truthy taskId and the second for a done task without a truthy
\* completedAt; date.today() of line 638 when a task was completed and
\* lastCompletedDate of the plan is a date other than the day read first.
PatchReads(plan, tasks, reads, p) ==
    LET n == Len(tasks)
    IN  IF p = 1 \/ p = 2 * n + 3 THEN TRUE
        ELSE IF p = 2 * n + 2
        THEN /\ CompletedToday(tasks)
             /\ plan.lastCompletedDate # IsoFormat(DateToday(reads[1]))
             /\ plan.lastCompletedDate # None
             /\ IsIsoDate(plan.lastCompletedDate)
        ELSE IF p % 2 = 0 THEN ~Truthy(tasks[p \div 2].taskId)
        ELSE tasks[p \div 2].isDone /\ ~Truthy(tasks[p \div 2].completedAt)

\* The next reading patch_tasks makes after the readings reads.
PatchNextReading(plan, tasks, reads) ==
    CHOOSE p \in (Len(reads) + 1)..PatchReadings(tasks) :
        /\ PatchReads(plan, tasks, reads, p)
        /\ \A q \in (Len(reads) + 1)..(p - 1) : ~PatchReads(plan, tasks, reads, q)

\* The $set document of patch_tasks with the progress of the task list that
\* was read, next to the incoming task list.
PatchUpdate_StaleProgress(plan, tasks, clock) ==
    LET n == Len(tasks)
        incoming == PatchNormalize(tasks, SubSeq(clock, 2, 2 * n + 1))
        s == UpdateStreak(plan, CompletedToday(tasks), DateToday(clock[1]), DateToday(clock[2 * n + 2]))
    IN  [tasks |-> incoming,
         progressPercent |-> calc_progress(plan.tasks),
         streakCount |-> s[1],
         lastCompletedDate |-> s[2],
         updatedAt |-> UtcNowIso(clock[2 * n + 3])]

\* The $set document of patch_tasks computed from the plan that was read:
\* clock[1] is date.today() before the loop, clock[2i] and clock[2i + 1] are
\* the readings of the loop for task i, clock[2n + 2] is date.today() in the
\* streak update and clock[2n + 3] the reading for updatedAt.
PatchUpdate(plan, tasks, clock) ==
    LET n == Len(tasks)
        incoming == PatchNormalize(tasks, SubSeq(clock, 2, 2 * n + 1))
        s == UpdateStreak(plan, CompletedToday(tasks), DateToday(clock[1]), DateToday(clock[2 * n + 2]))
    IN  [tasks |-> incoming,
         progressPercent |-> calc_progress(incoming),
         streakCount |-> s[1],
         lastCompletedDate |-> s[2],
         updatedAt |-> UtcNowIso(clock[2 * n + 3])]

----------------------------------------------------------------------------
(* The document store *)

\* find_one({"_id": id})
Found(id) == id \in DOMAIN store

\* The collection with document id set to doc (insert_one, or the result of
\* update_one on a match).
StoreWith(id, doc) == [x \in DOMAIN store \cup {id} |-> IF x = id THEN doc ELSE store[x]]

\* delete_one that matches the document and leaves it in the collection.
StoreWithout_Keep(id) == store

\* delete_one({"_id": id})
StoreWithout(id) == [x \in DOMAIN store \ {id} |-> store[x]]

\* update_one(..., {"$set": update}) applied to a document.
SetFields(doc, update) ==
    [k \in DOMAIN doc \cup DOMAIN update |-> IF k \in DOMAIN update THEN update[k] ELSE doc[k]]

\* update_one with upsert=True: without a match the $set document is inserted.
update_one_Upsert(id, update) ==
    StoreWith(id, IF Found(id) THEN SetFields(store[id], update) ELSE update)

\* The collection after update_one({"_id": id}, {"$set": update}): the matched
\* document with the fields set, and no change without a match.
update_one(id, update) ==
    IF Found(id) THEN StoreWith(id, SetFields(store[id], update)) ELSE store

\* create_document (database module, not among the sources): the store
\* assigns the next ObjectId and returns it as a string.
create_document == ObjectIdStr(nextOid)

\* create_document without a configured store: the request ends in a 500.
create_document_fails == ~db

\* get_documents (database module): the ids of the stored documents, in the
\* order of insertion.
get_documents ==
    SelectSeq([k \in 1..(nextOid - 1) |-> ObjectIdStr(k)], LAMBDA id : id \in DOMAIN store)

\* Whether a store operation keyed by the ObjectId of id_str raises. With the
\* 12 bytes of a key it does not. With fewer bytes (an id with blanks that
\* to_object_id let through) the driver, which is not among the sources,
\* either sends a key that matches no document or raises.
StoreRaises(id_str) == IF TwelveBytes(id_str) THEN {FALSE} ELSE BOOLEAN

\* The request and its response, as the last step.
Response(op, id, req, status, body) ==
    [op |-> op, id |-> id, req |-> req, status |-> status, body |-> body]

\* HTTPException(status_code, detail)
Error(op, id, req, status, detail) == Response(op, id, req, status, [detail |-> detail])

----------------------------------------------------------------------------
(* The wall clock *)

StartDate == <<2024, 2, 28>>

\* The first reading of every run: midnight UTC of StartDate.
StartClock == <<StartDate, 0, 0>>

\* The time zones a run may be in.
Zones == {Utc, Tokyo, NewYork}

\* What a reading of the clock gives now.
Clock == now

\* date.today() now.
today == DateToday(Clock)

\* The clock moves on by half a second.
HalfSecond == 500000

NextTick(r) == IF r[3] = 0 THEN <<r[1], r[2], HalfSecond>> ELSE <<r[1], r[2] + 1, 0>>

\* The half seconds of its day that have passed at the reading r.
Ticks(r) == 2 * r[2] + (IF r[3] = 0 THEN 0 ELSE 1)

NoRequest == [op |-> "clock", id |-> None, req |-> None, status |-> 0, body |-> None]

\* Time passes within the day, up to n half seconds.
TickTo(n) ==
    /\ Ticks(now) < n
    /\ now' = NextTick(now)
    /\ last' = NoRequest
    /\ UNCHANGED <<db, inflight, raced, store, nextOid, tz, deleted, counted>>

Tick == TickTo(MaxTick)

\* Midnight passes, up to n times.
NextDayTo(n) ==
    /\ DaysBetween(now[1], StartDate) < n
    /\ now' = <<NextDate(now[1]), 0, 0>>
    /\ last' = NoRequest
    /\ counted' = {}
    /\ UNCHANGED <<db, inflight, raced, store, nextOid, tz, deleted>>

NextDay == NextDayTo(MaxDays)

----------------------------------------------------------------------------
(* Request bodies: what the models of the handlers' parameters accept *)

\* A request body is the function from the keys of its JSON object to their
\* values; null is None for a string and NoInt for an integer.

\* Field(pattern="^(game|earning|challenge)$") accepting every string.
TypePattern_Any(s) == TRUE

\* Field(pattern="^(game|earning|challenge)$")
TypePattern(s) == s \in {"game", "earning", "challenge"}

PlanCreateFields ==
    {"name", "type", "linkedIdeaId", "linkedPathId", "robuxGoal", "notes", "tasks"}

PlanUpdateFields ==
    {"name", "type", "linkedIdeaId", "linkedPathId", "robuxGoal", "notes", "tasks", "streakCount"}

\* The fields declared Optional[int].
IntFields == {"robuxGoal", "streakCount"}

\* The value is None (JSON null), of whatever type the field is.
IsNull(v) == ToString(v) = ToString(None)

\* The value of field k is None.
IsNone(k, v) == IF k \in IntFields THEN v = NoInt ELSE IsNull(v)

\* One entry of the list a 422 answers with: the kind of the error, the
\* place of the value in the request, the message and the value.
ValidationError(type, loc, msg, input) ==
    [type |-> type, loc |-> loc, msg |-> msg, input |-> input]

\* The errors of the field k of obj, declared str without a default.
RequiredStr(obj, k, loc) ==
    IF k \notin DOMAIN obj
    THEN <<ValidationError("missing", loc \o <<k>>, "Field required", obj)>>
    ELSE IF IsNull(obj[k])
    THEN <<ValidationError("string_type", loc \o <<k>>, "Input should be a valid string", obj[k])>>
    ELSE <<>>

\* The errors of a type that is given and is not None.
PatternErrors(v, loc) ==
    IF TypePattern(v) THEN <<>>
    ELSE <<[type |-> "string_pattern_mismatch",
            loc |-> loc,
            msg |-> "String should match pattern '^(game|earning|challenge)$'",
            input |-> v,
            ctx |-> [pattern |-> "^(game|earning|challenge)$"]]>>

\* The errors of one task as TaskModel: label is required and a string,
\* isDone is a boolean when given.
TaskModelErrors(t, loc) ==
    RequiredStr(t, "label", loc)
    \o (IF "isDone" \in DOMAIN t /\ IsNull(t["isDone"])
        THEN <<ValidationError("bool_type", loc \o <<"isDone">>,
                               "Input should be a valid boolean", t["isDone"])>>
        ELSE <<>>)

\* The errors of the first n tasks of a list, task by task.
RECURSIVE TaskListErrors(_, _)
TaskListErrors(tasks, n) ==
    IF n = 0 THEN <<>>
    ELSE TaskListErrors(tasks, n - 1)
         \o TaskModelErrors(tasks[n], <<"body", "tasks", n - 1>>)

\* The errors of body as PlanCreate, in the order of the fields: name and
\* type are required strings, type matches the pattern, tasks is a list of
\* TaskModel.
PlanCreateErrors(body) ==
    RequiredStr(body, "name", <<"body">>)
    \o (IF RequiredStr(body, "type", <<"body">>) # <<>>
        THEN RequiredStr(body, "type", <<"body">>)
        ELSE PatternErrors(body["type"], <<"body", "type">>))
    \o (IF "tasks" \notin DOMAIN body THEN <<>>
        ELSE IF IsNull(body["tasks"])
        THEN <<ValidationError("list_type", <<"body", "tasks">>,
                               "Input should be a valid list", body["tasks"])>>
        ELSE TaskListErrors(body["tasks"], Len(body["tasks"])))

\* body validates as PlanCreate.
PlanCreateValid(body) == Len(PlanCreateErrors(body)) = 0

\* The TaskModel built from a valid task: the declared fields, each with its
\* default when the task does not have it.
TaskModel(t) ==
    [taskId |-> Get(t, "taskId"),
     label |-> t["label"],
     isDone |-> IF "isDone" \in DOMAIN t THEN t["isDone"] ELSE FALSE,
     dueDate |-> Get(t, "dueDate"),
     completedAt |-> Get(t, "completedAt")]

\* The PlanCreate built from a valid body: the declared fields, each with
\* its default when the body does not have it, the tasks as TaskModel.
PlanCreate(body) ==
    [k \in PlanCreateFields |->
        IF k = "tasks"
        THEN (IF k \in DOMAIN body
              THEN [i \in 1..Len(body[k]) |-> TaskModel(body[k][i])]
              ELSE <<>>)
        ELSE IF k \in DOMAIN body THEN body[k]
        ELSE IF k \in IntFields THEN NoInt
        ELSE None]

\* The errors of body as PlanUpdate: every field is optional, a type that
\* is given matches the pattern, tasks that are given are TaskModel.
PlanUpdateErrors(body) ==
    (IF "type" \in DOMAIN body /\ ~IsNull(body["type"])
     THEN PatternErrors(body["type"], <<"body", "type">>)
     ELSE <<>>)
    \o (IF "tasks" \in DOMAIN body /\ ~IsNull(body["tasks"])
        THEN TaskListErrors(body["tasks"], Len(body["tasks"]))
        ELSE <<>>)

\* body validates as PlanUpdate.
PlanUpdateValid(body) == Len(PlanUpdateErrors(body)) = 0

\* TaskModel.model_dump(exclude_none=True): the fields that are not None.
TaskDump(t) == [k \in {f \in DOMAIN t : ~IsNull(t[f])} |-> t[k]]

\* PlanUpdate(**body).model_dump(exclude_none=True): the declared fields the
\* body gives a value other than None, the tasks dumped the same way; a
\* stored streakCount is a plain integer.
PlanUpdateDump(body) ==
    [k \in {f \in PlanUpdateFields \cap DOMAIN body : ~IsNone(f, body[f])} |->
        IF k = "streakCount" THEN body[k][1]
        ELSE IF k = "tasks" THEN [i \in 1..Len(body[k]) |-> TaskDump(TaskModel(body[k][i]))]
        ELSE body[k]]

----------------------------------------------------------------------------
(* Handlers, one step per reading of the clock and per store operation *)

Callers == 1..MaxCalls

\* No request of the caller is in a handler.
Idle == [pc |-> "idle"]

\* No request is in a handler.
Quiet == \A c \in Callers : inflight[c].pc = "idle"

\* A request between two steps of its handler: pc names the step that comes
\* next, update is the document the handler holds in its locals (data in
\* create_plan, the $set document in the others).
Call(pc, id, req, update) == [pc |-> pc, id |-> id, req |-> req, update |-> update]

\* A create call between two readings of the clock: reads are the readings
\* made.
CreateCall(pc, req, reads) == [pc |-> pc, id |-> None, req |-> req, reads |-> reads]

\* A patch-tasks call that has read its plan, between two readings of the
\* clock: reads are the readings made.
PlanCall(pc, id, req, plan, reads) ==
    [pc |-> pc, id |-> id, req |-> req, plan |-> plan, reads |-> reads]

\* A patch-tasks call that has read its plan and made its readings of the
\* clock: today is the local of that name (line 614), update is the $set
\* document.
PatchCall(pc, id, req, plan, day, update) ==
    [pc |-> pc, id |-> id, req |-> req, plan |-> plan, today |-> day, update |-> update]

\* The last step belongs to a request that has no response yet.
Pending(op, id, req) == Response(op, id, req, 0, None)

\* An exception that no handler catches: the server answers 500 with the
\* plain text "Internal Server Error" for a body, not a JSON document.
ServerError(op, id, req) == Response(op, id, req, 500, "Internal Server Error")

\* GET /api/plans: without a store the list is empty, not an error.
get_plans ==
    /\ LET docs == IF db THEN get_documents ELSE <<>>
       IN  last' = Response("get_plans", None, None, 200,
                            [i \in 1..Len(docs) |-> doc_to_dict(docs[i], store[docs[i]])])
    /\ UNCHANGED <<db, inflight, raced, store, nextOid, tz, now, deleted, counted>>

\* create_plan after one of its readings of the clock, with the readings
\* reads made: it is before its next reading, or, with none left, before
\* create_document with the document data in its hands.
create_plan_after(payload, reads) ==
    IF CreateNextReading(payload, Len(reads)) # 0
    THEN CreateCall("create_plan_reading", payload, reads)
    ELSE Call("create_plan_insert", None, payload,
              CreateData(payload, ReadAt(reads, CreateReadings(payload), reads[Len(reads)])))

\* POST /api/plans up to and including the reading of the clock for
\* createdAt and updatedAt (lines 534-557).
create_plan_now(c, payload) ==
    /\ inflight[c].pc = "idle"
    /\ UNCHANGED <<db, store, nextOid, tz, now, deleted, counted, raced>>
    /\ inflight' = [inflight EXCEPT ![c] = create_plan_after(payload, <<Clock>>)]
    /\ last' = Pending("create_plan", None, payload)

\* POST /api/plans at a reading of the clock in the loop over the tasks
\* (line 560): the reading for the next task without a taskId.
create_plan_reading(c) ==
    /\ inflight[c].pc = "create_plan_reading"
    /\ UNCHANGED <<db, store, nextOid, tz, now, deleted, counted, raced>>
    /\ LET call == inflight[c]
           p == CreateNextReading(call.req, Len(call.reads))
       IN  /\ inflight' = [inflight EXCEPT ![c] =
                    create_plan_after(call.req, ReadAt(call.reads, p, Clock))]
           /\ last' = Pending("create_plan", None, call.req)

\* POST /api/plans at create_document (line 577): the insertion of the data
\* the handler holds.
create_plan_insert(c) ==
    /\ inflight[c].pc = "create_plan_insert"
    /\ UNCHANGED <<db, tz, now, deleted, counted, raced>>
    /\ LET call == inflight[c]
       IN  IF create_document_fails
           THEN /\ last' = ServerError("create_plan", None, call.req)
                /\ inflight' = [inflight EXCEPT ![c] = Idle]
                /\ UNCHANGED <<store, nextOid>>
           ELSE LET new_id == create_document
                IN  /\ store' = StoreWith(new_id, call.update)
                    /\ nextOid' = nextOid + 1
                    /\ inflight' = [inflight EXCEPT ![c] =
                            Call("create_plan_return", new_id, call.req, call.update)]
                    /\ last' = Pending("create_plan", new_id, call.req)

\* POST /api/plans from the find_one after the insert: the stored document,
\* or the inserted data when the document is gone.
create_plan_return(c) ==
    /\ inflight[c].pc = "create_plan_return"
    /\ UNCHANGED <<db, store, nextOid, tz, now, deleted, counted, raced>>
    /\ LET call == inflight[c]
       IN  last' = Response("create_plan", call.id, call.req, 200,
                            doc_to_dict(call.id, IF Found(call.id) THEN store[call.id] ELSE call.update))
    /\ inflight' = [inflight EXCEPT ![c] = Idle]

\* POST /api/plans with the body as sent: the body is validated as
\* PlanCreate before create_plan runs, and a body that fails is answered
\* 422 with the list of its errors.
create_plan_request(c, body) ==
    IF ~PlanCreateValid(body)
    THEN /\ inflight[c].pc = "idle"
         /\ last' = Error("create_plan", None, body, 422, PlanCreateErrors(body))
         /\ UNCHANGED <<db, store, nextOid, tz, now, deleted, counted, inflight, raced>>
    ELSE create_plan_now(c, PlanCreate(body))

\* GET /api/plans/{plan_id}
get_plan(plan_id) ==
    /\ UNCHANGED <<db, inflight, raced, store, nextOid, tz, now, deleted, counted>>
    /\ IF ~db
       THEN last' = Error("get_plan", plan_id, None, 500, "Database not configured")
       ELSE IF ~to_object_id(plan_id)
       THEN last' = Error("get_plan", plan_id, None, 400, "Invalid ID format")
       ELSE \E raises \in StoreRaises(plan_id) :
            last' = IF raises THEN ServerError("get_plan", plan_id, None)
                    ELSE IF ~Found(plan_id) THEN Error("get_plan", plan_id, None, 404, "Plan not found")
                    ELSE Response("get_plan", plan_id, None, 200, doc_to_dict(plan_id, store[plan_id]))

\* PUT /api/plans/{plan_id} up to the update_one (lines 592-596): the test
\* of db, the $set document and the reading of the clock it is stamped
\* with; payload is model_dump(exclude_none=True).
put_plan_now(c, plan_id, payload) ==
    /\ inflight[c].pc = "idle"
    /\ UNCHANGED <<db, store, nextOid, tz, now, deleted, counted, raced>>
    /\ IF ~db
       THEN /\ last' = Error("put_plan", plan_id, payload, 500, "Database not configured")
            /\ UNCHANGED inflight
       ELSE /\ last' = Pending("put_plan", plan_id, payload)
            /\ inflight' = [inflight EXCEPT ![c] =
                    Call("put_plan_update", plan_id, payload, PutUpdate(payload, Clock))]

\* PUT /api/plans/{plan_id} at the update_one (lines 597-599): to_object_id,
\* the write of the $set document the handler holds, and the matched_count
\* test.
put_plan_update(c) ==
    /\ inflight[c].pc = "put_plan_update"
    /\ UNCHANGED <<db, nextOid, tz, now, deleted, counted, raced>>
    /\ LET call == inflight[c]
       IN  IF ~to_object_id(call.id)
           THEN /\ last' = Error("put_plan", call.id, call.req, 400, "Invalid ID format")
                /\ inflight' = [inflight EXCEPT ![c] = Idle]
                /\ UNCHANGED store
           ELSE \E raises \in StoreRaises(call.id) :
            IF raises
            THEN /\ last' = ServerError("put_plan", call.id, call.req)
                 /\ inflight' = [inflight EXCEPT ![c] = Idle]
                 /\ UNCHANGED store
            ELSE /\ store' = update_one(call.id, call.update)
                 /\ IF ~Found(call.id)
                    THEN /\ last' = Error("put_plan", call.id, call.req, 404, "Plan not found")
                         /\ inflight' = [inflight EXCEPT ![c] = Idle]
                    ELSE /\ last' = Pending("put_plan", call.id, call.req)
                         /\ inflight' = [inflight EXCEPT ![c] =
                                 Call("put_plan_return", call.id, call.req, call.update)]

\* PUT /api/plans/{plan_id} from the find_one after the update: doc_to_dict
\* of what is stored then, None when the plan is gone.
put_plan_return(c) ==
    /\ inflight[c].pc = "put_plan_return"
    /\ UNCHANGED <<db, store, nextOid, tz, now, deleted, counted, raced>>
    /\ LET call == inflight[c]
       IN  last' = Response("put_plan", call.id, call.req, 200,
                            IF Found(call.id) THEN doc_to_dict(call.id, store[call.id]) ELSE None)
    /\ inflight' = [inflight EXCEPT ![c] = Idle]

\* PUT /api/plans/{plan_id} with the body as sent: the body is validated as
\* PlanUpdate before put_plan runs, and a body that fails is answered 422
\* with the list of its errors.
put_plan_request(c, plan_id, body) ==
    IF ~PlanUpdateValid(body)
    THEN /\ inflight[c].pc = "idle"
         /\ last' = Error("put_plan", plan_id, body, 422, PlanUpdateErrors(body))
         /\ UNCHANGED <<db, store, nextOid, tz, now, deleted, counted, inflight, raced>>
    ELSE put_plan_now(c, plan_id, PlanUpdateDump(body))

\* PATCH /api/plans/{plan_id}/tasks up to and including the first find_one
\* (lines 605-609).
patch_tasks_find(c, plan_id, tasks) ==
    /\ inflight[c].pc = "idle"
    /\ UNCHANGED <<db, store, nextOid, tz, now, deleted, counted, raced>>
    /\ IF ~db
       THEN /\ last' = Error("patch_tasks", plan_id, tasks, 500, "Database not configured")
            /\ UNCHANGED inflight
       ELSE IF ~to_object_id(plan_id)
       THEN /\ last' = Error("patch_tasks", plan_id, tasks, 400, "Invalid ID format")
            /\ UNCHANGED inflight
       ELSE \E raises \in StoreRaises(plan_id) :
        IF raises
        THEN /\ last' = ServerError("patch_tasks", plan_id, tasks)
             /\ UNCHANGED inflight
        ELSE IF ~Found(plan_id)
        THEN /\ last' = Error("patch_tasks", plan_id, tasks, 404, "Plan not found")
             /\ UNCHANGED inflight
        ELSE /\ inflight' = [inflight EXCEPT ![c] =
                     PlanCall("patch_tasks_reading", plan_id, tasks, store[plan_id], <<>>)]
             /\ last' = Pending("patch_tasks", plan_id, tasks)

\* PATCH /api/plans/{plan_id}/tasks at a reading of the clock (lines 614,
\* 621, 623, 638 and 647): the next reading the handler makes.  After the
\* last one (line 647) the handler holds the $set document, computed from
\* the plan that was read and from its readings, until it writes it.
patch_tasks_reading(c) ==
    /\ inflight[c].pc = "patch_tasks_reading"
    /\ UNCHANGED <<db, store, nextOid, tz, now, deleted, counted, raced>>
    /\ LET call == inflight[c]
           p == PatchNextReading(call.plan, call.req, call.reads)
           reads == ReadAt(call.reads, p, Clock)
       IN  /\ inflight' = [inflight EXCEPT ![c] =
                    IF p < PatchReadings(call.req)
                    THEN PlanCall("patch_tasks_reading", call.id, call.req, call.plan, reads)
                    ELSE PatchCall("patch_tasks_update", call.id, call.req, call.plan,
                                   IsoFormat(DateToday(reads[1])),
                                   PatchUpdate(call.plan, call.req, reads))]
           /\ last' = Pending("patch_tasks", call.id, call.req)

\* PATCH /api/plans/{plan_id}/tasks at the update_one (lines 648-659): the
\* write of the $set document the handler holds, and the matched_count test.
\* A write onto the plan as the call read it leaves the plan counted for the
\* day the call read when that day is today and the lastCompletedDate it
\* writes; a write onto a plan that has changed since leaves the plan not
\* counted.
patch_tasks_update(c) ==
    /\ inflight[c].pc = "patch_tasks_update"
    /\ UNCHANGED <<db, nextOid, tz, now, deleted>>
    /\ LET call == inflight[c]
       IN  /\ store' = update_one(call.id, call.update)
           /\ IF ~Found(call.id)
              THEN /\ last' = Error("patch_tasks", call.id, call.req, 404, "Plan not found")
                   /\ inflight' = [inflight EXCEPT ![c] = Idle]
                   /\ raced' = raced \cup {call.id}
                   /\ UNCHANGED counted
              ELSE /\ last' = Pending("patch_tasks", call.id, call.req)
                   /\ inflight' = [inflight EXCEPT ![c] =
                            Call("patch_tasks_return", call.id, call.req, call.update)]
                   /\ counted' = IF store[call.id] # call.plan THEN counted \ {call.id}
                                  ELSE IF /\ call.today = IsoFormat(today)
                                          /\ call.update.lastCompletedDate = call.today
                                  THEN counted \cup {call.id}
                                  ELSE counted
                   /\ UNCHANGED raced

\* PATCH /api/plans/{plan_id}/tasks from the find_one after the update:
\* doc_to_dict of what is stored then, None when the plan is gone.
patch_tasks_return(c) ==
    /\ inflight[c].pc = "patch_tasks_return"
    /\ UNCHANGED <<db, store, nextOid, tz, now, deleted, counted, raced>>
    /\ LET call == inflight[c]
       IN  last' = Response("patch_tasks", call.id, call.req, 200,
                            IF Found(call.id) THEN doc_to_dict(call.id, store[call.id]) ELSE None)
    /\ inflight' = [inflight EXCEPT ![c] = Idle]

\* PATCH /api/plans/{plan_id}/notes up to the update_one (lines 665-667):
\* the test of db and the reading of the clock the $set document is stamped
\* with.
patch_notes_now(c, plan_id, notes) ==
    /\ inflight[c].pc = "idle"
    /\ UNCHANGED <<db, store, nextOid, tz, now, deleted, counted, raced>>
    /\ IF ~db
       THEN /\ last' = Error("patch_notes", plan_id, notes, 500, "Database not configured")
            /\ UNCHANGED inflight
       ELSE /\ last' = Pending("patch_notes", plan_id, notes)
            /\ inflight' = [inflight EXCEPT ![c] =
                    Call("patch_notes_update", plan_id, notes,
                         [notes |-> notes, updatedAt |-> UtcNowIso(Clock)])]

\* PATCH /api/plans/{plan_id}/notes at the update_one (lines 668-670):
\* to_object_id, the write of the $set document the handler holds, and the
\* matched_count test.
patch_notes_update(c) ==
    /\ inflight[c].pc = "patch_notes_update"
    /\ UNCHANGED <<db, nextOid, tz, now, deleted, counted, raced>>
    /\ LET call == inflight[c]
       IN  IF ~to_object_id(call.id)
           THEN /\ last' = Error("patch_notes", call.id, call.req, 400, "Invalid ID format")
                /\ inflight' = [inflight EXCEPT ![c] = Idle]
                /\ UNCHANGED store
           ELSE \E raises \in StoreRaises(call.id) :
            IF raises
            THEN /\ last' = ServerError("patch_notes", call.id, call.req)
                 /\ inflight' = [inflight EXCEPT ![c] = Idle]
                 /\ UNCHANGED store
            ELSE /\ store' = update_one(call.id, call.update)
                 /\ IF ~Found(call.id)
                    THEN /\ last' = Error("patch_notes", call.id, call.req, 404, "Plan not found")
                         /\ inflight' = [inflight EXCEPT ![c] = Idle]
                    ELSE /\ last' = Pending("patch_notes", call.id, call.req)
                         /\ inflight' = [inflight EXCEPT ![c] =
                                 Call("patch_notes_return", call.id, call.req, call.update)]

\* PATCH /api/plans/{plan_id}/notes from the find_one after the update.
patch_notes_return(c) ==
    /\ inflight[c].pc = "patch_notes_return"
    /\ UNCHANGED <<db, store, nextOid, tz, now, deleted, counted, raced>>
    /\ LET call == inflight[c]
       IN  last' = Response("patch_notes", call.id, call.req, 200,
                            IF Found(call.id) THEN doc_to_dict(call.id, store[call.id]) ELSE None)
    /\ inflight' = [inflight EXCEPT ![c] = Idle]

\* DELETE /api/plans/{plan_id}
delete_plan(plan_id) ==
    /\ UNCHANGED <<db, inflight, raced, nextOid, tz, now, counted>>
    /\ IF ~db
       THEN /\ last' = Error("delete_plan", plan_id, None, 500, "Database not configured")
            /\ UNCHANGED <<store, deleted>>
       ELSE IF ~to_object_id(plan_id)
       THEN /\ last' = Error("delete_plan", plan_id, None, 400, "Invalid ID format")
            /\ UNCHANGED <<store, deleted>>
       ELSE \E raises \in StoreRaises(plan_id) :
        IF raises
        THEN /\ last' = ServerError("delete_plan", plan_id, None)
             /\ UNCHANGED <<store, deleted>>
        ELSE IF ~Found(plan_id)
        THEN /\ last' = Error("delete_plan", plan_id, None, 404, "Plan not found")
             /\ UNCHANGED <<store, deleted>>
        ELSE /\ store' = StoreWithout(plan_id)
             /\ deleted' = deleted \cup {plan_id}
             /\ last' = Response("delete_plan", plan_id, None, 200, [ok |-> TRUE])

----------------------------------------------------------------------------
(* Requests *)

\* The lists of at most n members of S.
SeqsUpTo(S, n) == UNION {[1..k -> S] : k \in 0..n}

\* Plan ids a caller sends: every id the store can hand out, one more that it
\* never does, and a malformed one.
PlanIds(n) == {ObjectIdStr(k) : k \in 1..(n + 1)} \cup {"not-an-object-id"}

\* TaskModel values of a create request; the caller may send the id the
\* server is about to generate for the second task.
CreateTaskValues ==
    [taskId : {None, "a", "t1-" \o ToString(UtcTimestamp(Clock))},
     label : {"L"},
     isDone : BOOLEAN,
     dueDate : {None},
     completedAt : {None}]

\* completedAt values the stored plan holds, for a caller that sends a task back.
StoredCompletedAt(plan_id) ==
    IF Found(plan_id)
    THEN {Get(store[plan_id].tasks[i], "completedAt") : i \in 1..Len(store[plan_id].tasks)}
    ELSE {}

\* TaskModel values of a patch-tasks request.
PatchTaskValues(plan_id) ==
    [taskId : {None, "a"},
     label : {"L"},
     isDone : BOOLEAN,
     dueDate : {None},
     completedAt : {None} \cup StoredCompletedAt(plan_id)]

\* TaskModel values of requests that name their task.
RaceTaskValues ==
    [taskId : {"a"}, label : {"L"}, isDone : BOOLEAN, dueDate : {None}, completedAt : {None}]

\* TaskModel values of a patch-tasks request from a caller that keeps no
\* task id and no completedAt.
FreshTaskValues ==
    [taskId : {None}, label : {"L"}, isDone : BOOLEAN, dueDate : {None}, completedAt : {None}]

\* PlanCreate values without links, with at most n tasks.
PlainCreates(n) ==
    [name : {"My Game"}, type : {"game"}, linkedIdeaId : {None}, linkedPathId : {None},
     robuxGoal : {NoInt}, notes : {None}, tasks : SeqsUpTo(CreateTaskValues, n)]

\* Ids of ideas and of paths a create request links: some that resolve, with
\* the shortest and the longest lists of the catalogs, and some that do not.
IdeaLinks == {None, "", "idea-obby-lava", "idea-tycoon-pets", "idea-horror-forest", "idea-unknown"}

PathLinks == {None, "path-create-games", "path-ugc-items", "path-commissions", "path-unknown"}

\* PlanCreate values with links that resolve and links that do not.
LinkedCreates ==
    [name : {"My Game"}, type : {"game"},
     linkedIdeaId : IdeaLinks,
     linkedPathId : PathLinks,
     robuxGoal : {NoInt},
     notes : {None, "", "my notes"},
     tasks : SeqsUpTo(RaceTaskValues, 1)]

\* Plan ids as sent: the ids of PlanIds, one of the right length that is not
\* hexadecimal, and ones of the right length with blanks between two pairs
\* of hex digits and within a pair.
RequestIds ==
    PlanIds(MaxPlans)
    \cup {"00000000000000000000000g",
          "00000000000000000000 \t01",
          "0000000000000000000000 1"}

\* A task of a request body.
BodyTask == [taskId |-> "a", label |-> "L", isDone |-> TRUE, dueDate |-> None, completedAt |-> None]

\* Dumped PlanUpdate values: of a body with a name, a streak and a task
\* list.
PutPayloads ==
    { PlanUpdateDump([name |-> "Renamed", streakCount |-> <<5>>, tasks |-> <<BodyTask>>]) }

\* Bodies of POST /api/plans: valid ones, one of them with a task of a
\* label only, and ones without a name, with a null name, without a type,
\* with a type outside the pattern, with a task without a label, with a
\* task of null label and null isDone, and with null for the tasks.
CreateBodies ==
    { [name |-> "My Game", type |-> "game"],
      [name |-> "", type |-> "challenge", tasks |-> <<BodyTask>>, streakCount |-> <<7>>],
      [name |-> "My Game", type |-> "game", tasks |-> <<[label |-> "L"]>>],
      [name |-> "My Game", type |-> "earning", tasks |-> <<BodyTask, [isDone |-> TRUE]>>],
      [name |-> "My Game", type |-> "game", notes |-> "n1",
       tasks |-> <<[label |-> None, isDone |-> None]>>],
      [name |-> "My Game", type |-> "game", linkedIdeaId |-> None, linkedPathId |-> None,
       tasks |-> None],
      [type |-> "game"],
      [name |-> None, type |-> "earning"],
      [name |-> "My Game"],
      [name |-> "My Game", type |-> "quest"],
      [name |-> "My Game", type |-> "Game"],
      [name |-> "My Game", type |-> ""] }

\* Bodies of PUT /api/plans/{plan_id}: some of the fields, null fields, a
\* task list, fields PlanUpdate does not declare, types outside the
\* pattern, a task without a label and null for the tasks.
PutBodies ==
    { [name |-> "Renamed"],
      [name |-> "Renamed", tasks |-> <<[isDone |-> TRUE]>>],
      [notes |-> "n3", name |-> None, tasks |-> None],
      [notes |-> "n3", robuxGoal |-> <<700>>, name |-> None, streakCount |-> NoInt],
      [type |-> "earning", tasks |-> <<BodyTask>>, progressPercent |-> 99,
       lastCompletedDate |-> "2020-01-01", createdAt |-> "2020-01-01T0"],
      [streakCount |-> <<0>>],
      [streakCount |-> << -1 >>],
      [type |-> "quest", name |-> "Renamed"],
      [type |-> "", notes |-> "n3"] }

\* Plan ids of overlapping requests: the ids the store hands out.
RaceIds == {ObjectIdStr(k) : k \in 1..MaxPlans}

\* The state after start-up, with or without a configured store, in one of
\* the given time zones.
InitIn(zones) ==
    /\ db \in BOOLEAN
    /\ store = <<>>
    /\ nextOid = 1
    /\ tz \in zones
    /\ now = StartClock
    /\ last = NoRequest
    /\ deleted = {}
    /\ counted = {}
    /\ inflight = [c \in Callers |-> Idle]
    /\ raced = {}

Init == InitIn(Zones)

\* The store has an id left below n for a create call that starts now.
Room(n) ==
    nextOid + Cardinality({c \in Callers :
                  inflight[c].pc \in {"create_plan_reading", "create_plan_insert"}}) <= n

\* One plan over several days, one request after another; midnight may pass
\* between any two steps of a call.
Next ==
    \/ Quiet /\ get_plans
    \/ Room(MaxPlans) /\ \E payload \in PlainCreates(MaxTasks) : create_plan_now(1, payload)
    \/ create_plan_reading(1)
    \/ create_plan_insert(1)
    \/ create_plan_return(1)
    \/ Quiet /\ \E plan_id \in PlanIds(MaxPlans) : get_plan(plan_id)
    \/ \E plan_id \in PlanIds(MaxPlans) : \E payload \in PutPayloads : put_plan_now(1, plan_id, payload)
    \/ put_plan_update(1)
    \/ put_plan_return(1)
    \/ \E plan_id \in PlanIds(MaxPlans) :
            \E tasks \in SeqsUpTo(PatchTaskValues(plan_id), MaxTasks) : patch_tasks_find(1, plan_id, tasks)
    \/ patch_tasks_reading(1)
    \/ patch_tasks_update(1)
    \/ patch_tasks_return(1)
    \/ \E plan_id \in PlanIds(MaxPlans) : patch_notes_now(1, plan_id, "n2")
    \/ patch_notes_update(1)
    \/ patch_notes_return(1)
    \/ Quiet /\ \E plan_id \in PlanIds(MaxPlans) : delete_plan(plan_id)
    \/ NextDay

Spec == Init /\ [][Next]_vars

\* Longer task lists within one day, one request after another; a tick may
\* pass between any two steps of a call.
NextTasks ==
    \/ Room(MaxPlans) /\ \E payload \in PlainCreates(MaxCreate) : create_plan_now(1, payload)
    \/ create_plan_reading(1)
    \/ create_plan_insert(1)
    \/ create_plan_return(1)
    \/ \E tasks \in SeqsUpTo(FreshTaskValues, MaxList) : patch_tasks_find(1, ObjectIdStr(1), tasks)
    \/ patch_tasks_reading(1)
    \/ patch_tasks_update(1)
    \/ patch_tasks_return(1)
    \/ Tick

SpecTasks == Init /\ [][NextTasks]_vars

\* Creation from every combination of links and notes, one request after
\* another; a tick may pass between any two steps of a call.
NextCreate ==
    \/ Room(MaxPlans) /\ \E payload \in LinkedCreates : create_plan_now(1, payload)
    \/ create_plan_reading(1)
    \/ create_plan_insert(1)
    \/ create_plan_return(1)
    \/ Quiet /\ \E plan_id \in PlanIds(MaxPlans) : get_plan(plan_id)
    \/ Tick

SpecCreate == InitIn({Utc}) /\ [][NextCreate]_vars

\* Several plans, created without tasks (so with the one reading of the
\* clock) and deleted in any order.
NextDelete ==
    \/ Quiet /\ get_plans
    \/ Room(MaxStored) /\ \E payload \in PlainCreates(0) : create_plan_now(1, payload)
    \/ create_plan_insert(1)
    \/ create_plan_return(1)
    \/ Quiet /\ \E plan_id \in PlanIds(MaxStored) : get_plan(plan_id)
    \/ \E plan_id \in PlanIds(MaxStored) : \E payload \in PutPayloads : put_plan_now(1, plan_id, payload)
    \/ put_plan_update(1)
    \/ put_plan_return(1)
    \/ \E plan_id \in PlanIds(MaxStored) :
            \E tasks \in SeqsUpTo(RaceTaskValues, 1) : patch_tasks_find(1, plan_id, tasks)
    \/ patch_tasks_reading(1)
    \/ patch_tasks_update(1)
    \/ patch_tasks_return(1)
    \/ \E plan_id \in PlanIds(MaxStored) : patch_notes_now(1, plan_id, "n2")
    \/ patch_notes_update(1)
    \/ patch_notes_return(1)
    \/ \E plan_id \in PlanIds(MaxStored) : delete_plan(plan_id)

SpecDelete == InitIn({Utc}) /\ [][NextDelete]_vars

\* One plan and request bodies as sent, valid or not, one request after
\* another.
NextRequest ==
    \/ Quiet /\ get_plans
    \/ Room(MaxPlans) /\ \E body \in CreateBodies : create_plan_request(1, body)
    \/ create_plan_reading(1)
    \/ create_plan_insert(1)
    \/ create_plan_return(1)
    \/ Quiet /\ \E plan_id \in RequestIds : get_plan(plan_id)
    \/ \E plan_id \in RequestIds : \E body \in PutBodies : put_plan_request(1, plan_id, body)
    \/ put_plan_update(1)
    \/ put_plan_return(1)
    \/ \E plan_id \in RequestIds :
            \E tasks \in SeqsUpTo(RaceTaskValues, MaxTasks) : patch_tasks_find(1, plan_id, tasks)
    \/ patch_tasks_reading(1)
    \/ patch_tasks_update(1)
    \/ patch_tasks_return(1)
    \/ \E plan_id \in RequestIds : patch_notes_now(1, plan_id, "n2")
    \/ patch_notes_update(1)
    \/ patch_notes_return(1)
    \/ Quiet /\ \E plan_id \in RequestIds : delete_plan(plan_id)

SpecRequest == InitIn({Utc}) /\ [][NextRequest]_vars

\* One plan replaced and patched as time passes, also between the reading
\* of the clock and the write of a call.
NextReplace ==
    \/ Room(MaxPlans) /\ \E body \in CreateBodies : create_plan_request(1, body)
    \/ create_plan_reading(1)
    \/ create_plan_insert(1)
    \/ create_plan_return(1)
    \/ \E body \in PutBodies : put_plan_request(1, ObjectIdStr(1), body)
    \/ put_plan_update(1)
    \/ put_plan_return(1)
    \/ \E tasks \in SeqsUpTo(RaceTaskValues, MaxTasks) : patch_tasks_find(1, ObjectIdStr(1), tasks)
    \/ patch_tasks_reading(1)
    \/ patch_tasks_update(1)
    \/ patch_tasks_return(1)
    \/ patch_notes_now(1, ObjectIdStr(1), "n2")
    \/ patch_notes_update(1)
    \/ patch_notes_return(1)
    \/ Tick

SpecReplace == InitIn({Utc}) /\ [][NextReplace]_vars

\* One plan, requests of two callers that overlap, and deletes, at one time
\* of the clock: both callers patch the tasks, the first also creates and
\* replaces, the second also patches the notes.
NextRace ==
    \/ Room(MaxPlans) /\ \E payload \in PlainCreates(0) : create_plan_now(1, payload)
    \/ create_plan_insert(1)
    \/ create_plan_return(1)
    \/ \E c \in Callers : \E plan_id \in RaceIds :
            \E tasks \in SeqsUpTo(RaceTaskValues, MaxTasks) : patch_tasks_find(c, plan_id, tasks)
    \/ \E c \in Callers : patch_tasks_reading(c)
    \/ \E c \in Callers : patch_tasks_update(c)
    \/ \E c \in Callers : patch_tasks_return(c)
    \/ \E plan_id \in RaceIds : \E payload \in PutPayloads : put_plan_now(1, plan_id, payload)
    \/ put_plan_update(1)
    \/ put_plan_return(1)
    \/ \E plan_id \in RaceIds : patch_notes_now(2, plan_id, "n2")
    \/ patch_notes_update(2)
    \/ patch_notes_return(2)
    \/ \E plan_id \in RaceIds : delete_plan(plan_id)

SpecRace == InitIn({Utc}) /\ [][NextRace]_vars

\* Task lists of one named task, done (a completion) or not.
StreakLists == {<<t>> : t \in RaceTaskValues}

\* One plan over several days, patch-tasks calls of two callers that
\* overlap with one another and with the creation and the PUTs of the first
\* caller, and midnight passing between any two steps and between two
\* readings of a call.
NextStreak ==
    \/ Room(MaxPlans) /\ \E payload \in PlainCreates(0) : create_plan_now(1, payload)
    \/ create_plan_insert(1)
    \/ create_plan_return(1)
    \/ \E c \in Callers : \E plan_id \in RaceIds :
            \E tasks \in StreakLists : patch_tasks_find(c, plan_id, tasks)
    \/ \E c \in Callers : patch_tasks_reading(c)
    \/ \E c \in Callers : patch_tasks_update(c)
    \/ \E c \in Callers : patch_tasks_return(c)
    \/ \E plan_id \in RaceIds : \E payload \in PutPayloads : put_plan_now(1, plan_id, payload)
    \/ put_plan_update(1)
    \/ put_plan_return(1)
    \/ NextDayTo(MaxStreakDays)

SpecStreak == Init /\ [][NextStreak]_vars

----------------------------------------------------------------------------
(* Claims *)

\* The step just taken is the write of the patch-tasks call of caller c: the
\* update_one matched the plan.
PatchWrote(c) ==
    inflight[c].pc = "patch_tasks_update" /\ inflight'[c].pc = "patch_tasks_return"

\* The step just taken is the write of a PUT of caller c, or of a
\* patch-notes call: the update_one matched the plan.
PutWrote(c) == inflight[c].pc = "put_plan_update" /\ inflight'[c].pc = "put_plan_return"

NotesWrote(c) == inflight[c].pc = "patch_notes_update" /\ inflight'[c].pc = "patch_notes_return"

\* The step just taken is one in which a request goes to the store with its
\* id for the first time (or an idle caller's request is answered before
\* that): no handler went on from a later position.
FirstAccess ==
    \A c \in Callers :
        \/ inflight[c].pc \in {"idle", "put_plan_update", "patch_notes_update"}
        \/ inflight'[c] = inflight[c]

\* The write of the patch-tasks call of caller c falls on the plan as the
\* call read it: no write to the plan lies between the call's find_one and
\* its update_one.
Unraced(c) ==
    /\ inflight[c].id \in DOMAIN store
    /\ store[inflight[c].id] = inflight[c].plan

\* The day the patch-tasks call of caller c read at line 614, and the day
\* before it.
CallToday(c) == inflight[c].today

CallYesterday(c) == IsoFormat(PrevDate(FromIsoFormat(inflight[c].today)))

\* A task of the request is done and carries no completedAt: the call stamps
\* it, which is what marks a completion in the call.
HasCompletion(req) ==
    \E i \in 1..Len(req) : req[i].isDone /\ req[i].completedAt \in {None, ""}

\* The ISO date of today.
TodayIso == IsoFormat(today)

\* C1: a patch-tasks call updates the streak once by the transition table:
\* without a completion streakCount and lastCompletedDate stay; with one,
\* lastCompletedDate absent gives 1, today leaves streakCount, yesterday
\* gives prior + 1, any other date gives 1, and lastCompletedDate ends as
\* today, the day the call reads first.
C1_StreakTable ==
    [][\A c \in Callers : PatchWrote(c) =>
        LET pre == store[inflight[c].id]
            post == store'[inflight[c].id]
        IN  IF ~HasCompletion(inflight[c].req)
            THEN /\ post.streakCount = pre.streakCount
                 /\ post.lastCompletedDate = pre.lastCompletedDate
            ELSE /\ post.lastCompletedDate = CallToday(c)
                 /\ post.streakCount =
                        IF pre.lastCompletedDate = None THEN 1
                        ELSE IF pre.lastCompletedDate = CallToday(c) THEN pre.streakCount
                        ELSE IF pre.lastCompletedDate = CallYesterday(c) THEN pre.streakCount + 1
                        ELSE 1]_vars

\* The number of done tasks of a list.
DoneCount(tasks) == Cardinality({i \in 1..Len(tasks) : tasks[i].isDone})

\* p is round(100 * done / total): an integer nearest to the quotient (a tie
\* may go either way).
IsRounded(p, done, total) ==
    /\ 2 * (100 * done - p * total) <= total
    /\ 2 * (p * total - 100 * done) <= total

\* C2: after every create and patch-tasks call, progressPercent of every
\* plan is round(100 * countDone / countTotal), and 0 for an empty list.
C2_ProgressRounded ==
    \A id \in DOMAIN store :
        LET tasks == store[id].tasks
            p == store[id].progressPercent
        IN  IF Len(tasks) = 0 THEN p = 0
            ELSE IsRounded(p, DoneCount(tasks), Len(tasks))

\* C3: after any create or patch-tasks call, every task of a stored plan has
\* a non-empty id and no two tasks of one plan share an id.
C3_UniqueTaskIds ==
    \A id \in DOMAIN store :
        LET tasks == store[id].tasks
        IN  /\ \A i \in 1..Len(tasks) : tasks[i].taskId \notin {None, ""}
            /\ \A i, j \in 1..Len(tasks) : i # j => tasks[i].taskId # tasks[j].taskId

\* C4: once a stored task has a completedAt, a patch-tasks call that sends
\* the same task (by id) with isDone = true leaves its completedAt as it was.
C4_CompletedAtOnce ==
    [][\A c \in Callers : PatchWrote(c) =>
        LET pre == store[inflight[c].id].tasks
            req == inflight[c].req
            post == store'[inflight[c].id].tasks
        IN  \A i \in 1..Len(pre) : \A j \in 1..Len(req) :
                (/\ Get(pre[i], "completedAt") \notin {None, ""}
                 /\ req[j].taskId = pre[i].taskId
                 /\ req[j].isDone)
                => post[j].completedAt = pre[i].completedAt]_vars

\* The request marks done a task that the stored plan does not hold as done.
GoesToDone(pre, req) ==
    \E j \in 1..Len(req) :
        /\ req[j].isDone
        /\ ~\E i \in 1..Len(pre) : pre[i].taskId = req[j].taskId /\ pre[i].isDone

\* C5: streakCount increases only in a patch-tasks call in which a task goes
\* from not-done in the stored plan to done, on a day other than the stored
\* lastCompletedDate; a call whose done tasks were all done already changes
\* neither streakCount nor lastCompletedDate.
C5_OnlyRealCompletions ==
    [][\A c \in Callers : PatchWrote(c) =>
        LET pre == store[inflight[c].id]
            post == store'[inflight[c].id]
            req == inflight[c].req
        IN  /\ post.streakCount > pre.streakCount
                => GoesToDone(pre.tasks, req) /\ pre.lastCompletedDate # CallToday(c)
            /\ ~GoesToDone(pre.tasks, req)
                => /\ post.streakCount = pre.streakCount
                   /\ post.lastCompletedDate = pre.lastCompletedDate]_vars

\* C6 as stated: among the patch-tasks calls on one plan on one calendar
\* day, in whatever order their steps fall, at most one changes the streak:
\* once the write of a call has left the plan counted for the day, the
\* write of every other call leaves streakCount and lastCompletedDate as
\* they are.
C6_OncePerDay ==
    [][\A c \in Callers : PatchWrote(c) =>
        LET id == inflight[c].id
            pre == store[id]
            post == store'[id]
        IN  id \in counted
                => /\ post.streakCount = pre.streakCount
                   /\ post.lastCompletedDate = pre.lastCompletedDate]_vars

\* C6, amended: among the patch-tasks calls on one plan on one calendar day
\* that write onto the plan as they read it, at most one changes the
\* streak: once such a write has left lastCompletedDate at the day, every
\* later one leaves streakCount and lastCompletedDate as they are, also
\* after a PUT has set streakCount and with midnight passing anywhere; a
\* call with a completion writes the day it read as lastCompletedDate, and
\* when that day is still today and the plan is as the call read it, the
\* plan is counted for the day. A call that writes onto a plan another call
\* has written since it read puts back what it computed.
C6_OncePerDayUnraced ==
    [][\A c \in Callers : PatchWrote(c) =>
        LET id == inflight[c].id
            pre == store[id]
            post == store'[id]
        IN  /\ (Unraced(c) /\ id \in counted)
                => /\ post.streakCount = pre.streakCount
                   /\ post.lastCompletedDate = pre.lastCompletedDate
            /\ HasCompletion(inflight[c].req)
                => /\ post.lastCompletedDate = CallToday(c)
                   /\ (Unraced(c) /\ CallToday(c) = TodayIso) => id \in counted'
            /\ ~Unraced(c)
                => /\ post.streakCount = inflight[c].update.streakCount
                   /\ post.lastCompletedDate = inflight[c].update.lastCompletedDate
                   /\ id \notin counted']_vars

\* C6 witness: a call with a completion, on a day already counted, left the
\* streak at the 5 a PUT had set after the day's first completion, while
\* the patch-tasks call of the other caller is between its find_one and its
\* write.
C6_Witness ==
    /\ last.op = "patch_tasks" /\ last.status = 200
    /\ \E c \in Callers : inflight[c].pc = "patch_tasks_update"
    /\ HasCompletion(last.req)
    /\ last.id \in counted
    /\ last.body.streakCount = 5
    /\ last.body.lastCompletedDate = TodayIso

\* The last step is a create call answered 200.
Created == last.op = "create_plan" /\ last.status = 200

\* The catalog entries a link names.
LinkedIdeas(req) == {i \in 1..Len(IDEAS) : IDEAS[i].id = req.linkedIdeaId}

LinkedPaths(req) == {i \in 1..Len(PATHS) : PATHS[i].id = req.linkedPathId}

\* The first n entries of a list, fewer when the list is shorter.
FirstN(seq, n) == [i \in 1..(IF Len(seq) < n THEN Len(seq) ELSE n) |-> seq[i]]

\* The labels a resolved idea contributes, in order.
IdeaLabels(req) ==
    IF LinkedIdeas(req) = {} THEN <<>>
    ELSE LET idea == IDEAS[CHOOSE i \in LinkedIdeas(req) : TRUE]
             design == FirstN(idea.coreMechanics, 3) \o FirstN(idea.funHooks, 2)
             monet == FirstN(idea.monetizationIdeas, 2)
         IN  [i \in 1..Len(design) |-> "Design: " \o design[i]]
             \o [i \in 1..Len(monet) |-> "Plan monetization: " \o monet[i]]

\* The labels a resolved path contributes, in order.
PathLabels(req) ==
    IF LinkedPaths(req) = {} THEN <<>>
    ELSE LET items == FirstN(PATHS[CHOOSE i \in LinkedPaths(req) : TRUE].checklist, 6)
         IN  [i \in 1..Len(items) |-> items[i].label]

\* The first tasks of the created plan are the caller's, as given.
CallerTasksKept(req, tasks) ==
    /\ Len(tasks) >= Len(req.tasks)
    /\ \A i \in 1..Len(req.tasks) :
        /\ tasks[i].label = req.tasks[i].label
        /\ tasks[i].isDone = req.tasks[i].isDone
        /\ tasks[i].dueDate = req.tasks[i].dueDate
        /\ tasks[i].completedAt = req.tasks[i].completedAt
        /\ req.tasks[i].taskId \notin {None, ""} => tasks[i].taskId = req.tasks[i].taskId

\* C7: the task list of a created plan is the caller's tasks, then for a
\* resolved idea "Design: ..." for its first 3 mechanics and first 2 fun
\* hooks and "Plan monetization: ..." for its first 2 monetization ideas,
\* then for a resolved path the labels of its first 6 checklist items; every
\* appended task is not done.
C7_CreatedTaskList ==
    Created =>
        LET req == last.req
            tasks == store[last.id].tasks
            n == Len(req.tasks)
            appended == IdeaLabels(req) \o PathLabels(req)
        IN  /\ tasks = last.body.tasks
            /\ Len(tasks) = n + Len(appended)
            /\ CallerTasksKept(req, tasks)
            /\ \A k \in 1..Len(appended) :
                /\ tasks[n + k].label = appended[k]
                /\ tasks[n + k].isDone = FALSE

\* C7 witness: a plan created with one task of its own, the idea with 5
\* mechanics, 4 fun hooks and 3 monetization ideas, and the path with 5
\* checklist items holds 1 + 7 + 5 tasks.
C7_Witness ==
    /\ Created
    /\ last.req.linkedIdeaId = "idea-obby-lava"
    /\ last.req.linkedPathId = "path-create-games"
    /\ Len(last.req.tasks) = 1
    /\ Len(store[last.id].tasks) = 13

\* C8: a create call with a link that does not resolve is answered 200; the
\* unresolved link appends no task, and when no link resolves the plan holds
\* exactly the caller's tasks and the caller's notes ("" when none given).
C8_UnresolvedLink ==
    (/\ last.op = "create_plan"
     /\ last.status # 0
     /\ db
     /\ \/ last.req.linkedIdeaId \notin {None, ""} /\ LinkedIdeas(last.req) = {}
        \/ last.req.linkedPathId \notin {None, ""} /\ LinkedPaths(last.req) = {})
    => /\ last.status = 200
       /\ last.id \in DOMAIN store
       /\ LET req == last.req
              plan == store[last.id]
          IN  /\ CallerTasksKept(req, plan.tasks)
              /\ Len(plan.tasks) =
                    Len(req.tasks)
                    + (IF LinkedIdeas(req) = {} THEN 0 ELSE Len(IdeaLabels(req)))
                    + (IF LinkedPaths(req) = {} THEN 0 ELSE Len(PathLabels(req)))
              /\ (LinkedIdeas(req) = {} /\ LinkedPaths(req) = {})
                    => /\ Len(plan.tasks) = Len(req.tasks)
                       /\ plan.notes = IF req.notes = None THEN "" ELSE req.notes

\* C8 witness: a plan created with an unknown idea and an unknown path, one
\* task and no notes.
C8_Witness ==
    /\ Created
    /\ last.req.linkedIdeaId = "idea-unknown"
    /\ last.req.linkedPathId = "path-unknown"
    /\ last.req.notes = None
    /\ Len(last.req.tasks) = 1
    /\ Len(store[last.id].tasks) = 1
    /\ store[last.id].notes = ""

\* C9: at creation the notes are the caller's when non-empty, else the
\* resolved idea's concept, else the resolved path's description, else "".
C9_NotesPrecedence ==
    Created =>
        LET req == last.req
        IN  /\ store[last.id].notes = last.body.notes
            /\ last.body.notes =
                IF req.notes \notin {None, ""} THEN req.notes
                ELSE IF LinkedIdeas(req) # {}
                     THEN IDEAS[CHOOSE i \in LinkedIdeas(req) : TRUE].concept
                ELSE IF LinkedPaths(req) # {}
                     THEN PATHS[CHOOSE i \in LinkedPaths(req) : TRUE].description
                ELSE ""

\* C9 witness: no notes given, an idea and a path both resolve, and the
\* stored notes are the idea's concept.
C9_Witness ==
    /\ Created
    /\ last.req.notes \in {None, ""}
    /\ last.req.linkedIdeaId = "idea-horror-forest"
    /\ last.req.linkedPathId = "path-commissions"
    /\ store[last.id].notes = "Survive nights in a foggy forest with a roaming creature."

\* The operations that take a plan id.
IdOps == {"get_plan", "put_plan", "patch_tasks", "patch_notes", "delete_plan"}

\* C10: after a DELETE answered 200, every GET, PUT, PATCH tasks, PATCH
\* notes and DELETE that goes to the store with that id for the first time
\* answers 404, the plan is not stored and not listed, whatever happens to
\* other plans in between.
C10_DeletedStaysGone ==
    [][/\ (last'.op \in IdOps /\ last'.status # 0 /\ last'.id \in deleted /\ FirstAccess)
            => last'.status = 404
       /\ last'.op = "get_plans"
            => \A i \in 1..Len(last'.body) : last'.body[i].id \notin deleted
       /\ \A id \in deleted : id \notin DOMAIN store']_vars

\* C10 witness: a patch-tasks call on a deleted id answered 404 while another
\* plan, changed after the delete, is stored.
C10_Witness ==
    /\ last.op = "patch_tasks"
    /\ last.id \in deleted
    /\ last.status = 404
    /\ \E id \in DOMAIN store : store[id].name = "Renamed"

\* The id has the shape of the store's ids: 24 hexadecimal digits.
WellFormed(id) ==
    /\ Len(id) = 24
    /\ \A i \in 1..Len(id) :
            \E j \in 1..22 : SubSeq(id, i, i) = SubSeq("0123456789abcdefABCDEF", j, j)

\* The last step answered a request on a plan id whose body, if it has one,
\* passed validation.
IdRequest ==
    /\ last'.op \in IdOps
    /\ last'.status # 0
    /\ last'.op = "put_plan" => PlanUpdateValid(last'.req)

\* C11, where the spec has no other outcome to give (a store is configured
\* and the body passes validation): every GET, PUT, PATCH tasks, PATCH
\* notes and DELETE with an id that is not 24 hexadecimal digits answers 400
\* "Invalid ID format" and leaves the store as it was, and with a
\* well-formed id that matches no plan answers 404.
C11_MalformedAlways400 ==
    [][(IdRequest /\ db) =>
        /\ ~WellFormed(last'.id) =>
                /\ last'.status = 400
                /\ last'.body = [detail |-> "Invalid ID format"]
                /\ store' = store
        /\ (WellFormed(last'.id) /\ last'.id \notin DOMAIN store) =>
                /\ last'.status = 404
                /\ store' = store]_vars

\* The operations on plans.
PlanOps == IdOps \cup {"get_plans", "create_plan"}

\* C12: without a configured store every plan endpoint (list, create, get,
\* put, patch tasks, patch notes, delete) answers 500.
C12_StoreUnavailable ==
    (~db /\ last.op \in PlanOps /\ last.status # 0) => last.status = 500

\* The fields of a stored plan that differ between two documents.
Changed(old, new) ==
    {k \in DOMAIN old \cup DOMAIN new :
        k \notin DOMAIN old \/ k \notin DOMAIN new \/ old[k] # new[k]}

\* C13: the write of a PUT on a stored plan sets the fields its body names,
\* except tasks, to the values of the body and updatedAt to the time the
\* call read before it, and changes no other field: tasks, progressPercent,
\* lastCompletedDate and createdAt keep their values, as does every field
\* the body does not name; the write of a patch-notes call sets notes and
\* updatedAt and nothing else; neither touches another plan, and the rest of
\* either call writes nothing.
C13_ReplaceFrame ==
    [][\A c \in Callers :
        /\ PutWrote(c) =>
            LET id == inflight'[c].id
                req == inflight'[c].req
                named == DOMAIN req \ {"tasks"}
            IN  /\ id \in DOMAIN store /\ DOMAIN store' = DOMAIN store
                /\ \A other \in DOMAIN store \ {id} : store'[other] = store[other]
                /\ Changed(store[id], store'[id]) \subseteq named \cup {"updatedAt"}
                /\ Changed(store[id], store'[id]) \cap
                        {"tasks", "progressPercent", "lastCompletedDate", "createdAt"} = {}
                /\ \A k \in named : store'[id][k] = req[k]
                /\ store'[id].updatedAt = inflight[c].update.updatedAt
        /\ NotesWrote(c) =>
            LET id == inflight'[c].id
            IN  /\ id \in DOMAIN store /\ DOMAIN store' = DOMAIN store
                /\ \A other \in DOMAIN store \ {id} : store'[other] = store[other]
                /\ Changed(store[id], store'[id]) \subseteq {"notes", "updatedAt"}
                /\ store'[id].notes = inflight'[c].req
                /\ store'[id].updatedAt = inflight[c].update.updatedAt
        /\ inflight'[c].pc \in {"put_plan_update", "patch_notes_update"} =>
                /\ store' = store
                /\ inflight[c].pc = "idle" => inflight'[c].update.updatedAt = UtcNowIso(now)
        /\ inflight[c].pc \in {"put_plan_return", "patch_notes_return"} =>
                store' = store]_vars

\* C13 witness: a PUT whose body held a type and a task list was answered
\* 200 after the plan was created: the plan has the type of the body, tasks
\* other than the body's, and an updatedAt later than its createdAt.
C13_Witness ==
    /\ last.op = "put_plan"
    /\ last.status = 200
    /\ "tasks" \in DOMAIN last.req
    /\ store[last.id].type = last.req.type
    /\ store[last.id].tasks # last.req.tasks
    /\ store[last.id].updatedAt # store[last.id].createdAt

\* The values the type of a plan may take.
PlanTypes == {"game", "earning", "challenge"}

\* The request of the last step has no name, or a null one.
NameMissing(req) == "name" \notin DOMAIN req \/ req["name"] = None

\* The request of the last step has no type, or one outside the enumeration.
TypeOutside(req) == "type" \notin DOMAIN req \/ req["type"] \notin PlanTypes

\* The request has null for its tasks.
TasksNull(req) == "tasks" \in DOMAIN req /\ IsNull(req["tasks"])

\* The request has a task without a label, with a null label or with a null
\* isDone.
TasksMalformed(req) ==
    /\ "tasks" \in DOMAIN req
    /\ ~IsNull(req["tasks"])
    /\ \E i \in 1..Len(req["tasks"]) :
            LET t == req["tasks"][i]
            IN  \/ "label" \notin DOMAIN t
                \/ IsNull(t["label"])
                \/ "isDone" \in DOMAIN t /\ IsNull(t["isDone"])

\* C14: a create request without a name or with a type outside game,
\* earning, challenge answers 422 with the store as it was and no id handed
\* out; a PUT with a type outside the enumeration answers 422 with the store
\* as it was; this with or without a configured store. A create or a PUT
\* answers 422 otherwise only for tasks that are not a list of tasks, each
\* with a label, and then too the store is as it was.
C14_RejectInvalid ==
    [][/\ last'.op = "create_plan" =>
            /\ (NameMissing(last'.req) \/ TypeOutside(last'.req)) => last'.status = 422
            /\ last'.status = 422 =>
                    /\ store' = store /\ nextOid' = nextOid
                    /\ \/ NameMissing(last'.req) \/ TypeOutside(last'.req)
                       \/ TasksNull(last'.req) \/ TasksMalformed(last'.req)
       /\ last'.op = "put_plan" =>
            /\ ("type" \in DOMAIN last'.req /\ last'.req["type"] \notin PlanTypes \cup {None})
                    => last'.status = 422
            /\ last'.status = 422 =>
                    /\ store' = store
                    /\ \/ "type" \in DOMAIN last'.req /\ last'.req["type"] \notin PlanTypes \cup {None}
                       \/ TasksMalformed(last'.req)]_vars

\* C14 witness: with a plan stored, a PUT on its id with the type "quest"
\* answered 422 with the one error of the type, and the plan has a type of
\* the enumeration.
C14_Witness ==
    /\ db
    /\ last.op = "put_plan"
    /\ last.status = 422
    /\ "type" \in DOMAIN last.req
    /\ last.req["type"] = "quest"
    /\ Len(last.body.detail) = 1
    /\ last.body.detail[1].loc = <<"body", "type">>
    /\ last.id \in DOMAIN store
    /\ store[last.id].type \in PlanTypes
    /\ store[last.id].name # "Renamed"

\* C15: every stored plan has a streakCount of at least 0, and of at least 1
\* when its lastCompletedDate is set; a plan just created has streakCount 0
\* and no lastCompletedDate.
C15_StreakNonNegative ==
    /\ \A id \in DOMAIN store :
        /\ store[id].streakCount >= 0
        /\ store[id].lastCompletedDate # None => store[id].streakCount >= 1
    /\ (last.op = "create_plan" /\ last.status = 200) =>
        /\ store[last.id].streakCount = 0
        /\ store[last.id].lastCompletedDate = None

\* C16: in every state, whatever create, PUT, patch-tasks and patch-notes
\* calls overlap on a plan, the stored progressPercent is in 0..100 and is
\* the value calc_progress gives the task list stored with it, never the
\* progress of another call's task list.
C16_ProgressOfStoredTasks ==
    \A id \in DOMAIN store :
        /\ store[id].progressPercent \in 0..100
        /\ store[id].progressPercent = calc_progress(store[id].tasks)

\* C16 witness: two patch-tasks calls on one plan with different task lists
\* are both past their write and before their return, the plan holds the
\* task list of one of them, and a PUT with a task list in its body has
\* been applied.
C16_Witness ==
    /\ inflight[1].pc = "patch_tasks_return"
    /\ inflight[2].pc = "patch_tasks_return"
    /\ inflight[1].id = inflight[2].id
    /\ inflight[1].update.progressPercent # inflight[2].update.progressPercent
    /\ inflight[1].id \in DOMAIN store
    /\ store[inflight[1].id].tasks = inflight[1].update.tasks
    /\ store[inflight[1].id].name = "Renamed"

\* The operations that update a plan.
UpdateOps == {"patch_tasks", "put_plan", "patch_notes"}

\* C17: no step of a patch-tasks, PUT or patch-notes call adds a plan to the
\* store; a patch-tasks call that has read its plan and finds it gone at its
\* write answers 404 and stores nothing, as does every call that goes to
\* the store for the first time with an id that is not stored; and an id a
\* DELETE has answered 200 for is never stored again.
C17_NeverRecreates ==
    [][/\ last'.op \in UpdateOps => DOMAIN store' = DOMAIN store
       /\ \A c \in Callers :
            (/\ inflight[c].pc = "patch_tasks_update"
             /\ inflight'[c].pc # "patch_tasks_update"
             /\ inflight[c].id \notin DOMAIN store)
            => /\ last'.op = "patch_tasks"
               /\ last'.id = inflight[c].id
               /\ last'.status = 404
               /\ inflight'[c].pc = "idle"
               /\ inflight[c].id \notin DOMAIN store'
       /\ (db /\ last'.op \in UpdateOps /\ last'.status # 0 /\ last'.id \notin DOMAIN store
              /\ FirstAccess)
            => last'.status = 404
       /\ \A id \in deleted : id \notin DOMAIN store']_vars

\* C17 witness: a patch-tasks call read the plan, a DELETE of the plan was
\* answered 200, and the call's write then found nothing: the call answered
\* 404 and the plan is not stored.
C17_Witness ==
    /\ last.op = "patch_tasks"
    /\ last.status = 404
    /\ last.id \in raced
    /\ last.id \in deleted
    /\ last.id \notin DOMAIN store

====
